---- MODULE Spec2Model ----
(***************************************************************************)
(* A model of tbourn/chatbot: the retrieval decision of                    *)
(* MessageService.retrieve and the PostMessage request path (idempotency   *)
(* validator, rate limiter, handler, Answer).                              *)
(*                                                                         *)
(* Text is modelled by TLA+ strings (sequences of characters); the         *)
(* alphabet is ASCII, so byte length and rune length coincide.  Scores are *)
(* exact rationals <<n, d>> with d > 0, standing for the float64 values.   *)
(***************************************************************************)
EXTENDS Integers, Sequences, FiniteSets, TLC

(***************************************************************************)
(* Characters and strings (Go: strings, unicode, regexp)                   *)
(***************************************************************************)
LowerLetters == "abcdefghijklmnopqrstuvwxyz"
UpperLetters == "ABCDEFGHIJKLMNOPQRSTUVWXYZ"
DigitChars == "0123456789"

Ch(s, i) == SubSeq(s, i, i)

CharSet(s) == {Ch(s, i) : i \in 1..Len(s)}

LowerSet == CharSet(LowerLetters)
UpperSet == CharSet(UpperLetters)
DigitSet == CharSet(DigitChars)

IsUpper(c) == c \in UpperSet
IsLetter(c) == c \in LowerSet \cup UpperSet
IsDigit(c) == c \in DigitSet
IsAlnum(c) == IsLetter(c) \/ IsDigit(c)
\* unicode.IsSpace and the regexp class \s, restricted to the alphabet
IsSpace(c) == c \in {" ", "\t", "\n", "\r"}

ToLowerCh(c) ==
  IF IsUpper(c)
    THEN Ch(LowerLetters, CHOOSE i \in 1..Len(UpperLetters) : Ch(UpperLetters, i) = c)
    ELSE c

\* the concatenation of parts[lo..hi], by halving
RECURSIVE ConcatRange(_, _, _)
ConcatRange(parts, lo, hi) ==
  IF lo > hi THEN ""
  ELSE IF lo = hi THEN parts[lo]
  ELSE LET mid == (lo + hi) \div 2
       IN ConcatRange(parts, lo, mid) \o ConcatRange(parts, mid + 1, hi)

ConcatAll(parts) == ConcatRange(parts, 1, Len(parts))

ToLower(s) == ConcatAll([i \in 1..Len(s) |-> ToLowerCh(Ch(s, i))])

\* strings.TrimSpace
TrimSpace(s) ==
  LET keep == {i \in 1..Len(s) : ~IsSpace(Ch(s, i))}
  IN IF keep = {} THEN ""
     ELSE SubSeq(s, CHOOSE i \in keep : \A j \in keep : i <= j,
                    CHOOSE i \in keep : \A j \in keep : j <= i)

\* strings.Contains
Contains(s, sub) ==
  \E i \in 1..(Len(s) - Len(sub) + 1) : SubSeq(s, i, i + Len(sub) - 1) = sub

\* the k-th smallest element of a set of integers
Nth(S, k) == CHOOSE i \in S : Cardinality({j \in S : j < i}) = k - 1

\* the maximal runs of the positions of s that lie in the set pos, in order
RunsAt(s, pos) ==
  LET starts == {i \in pos : i - 1 \notin pos}
      ends == {i \in pos : i + 1 \notin pos}
  IN [k \in 1..Cardinality(starts) |-> SubSeq(s, Nth(starts, k), Nth(ends, k))]

\* strings.Split on a one-character separator
Split(s, sep) ==
  LET seps == {i \in 1..Len(s) : Ch(s, i) = sep}
      n == Cardinality(seps)
  IN [k \in 1..(n + 1) |->
        SubSeq(s, IF k = 1 THEN 1 ELSE Nth(seps, k - 1) + 1,
                  IF k = n + 1 THEN Len(s) ELSE Nth(seps, k) - 1)]

\* strings.Join
Join(parts, sep) ==
  ConcatAll([i \in 1..Len(parts) |-> IF i = 1 THEN parts[i] ELSE sep \o parts[i]])

\* strings.Fields: the maximal runs of non-space characters
Fields(s) == RunsAt(s, {i \in 1..Len(s) : ~IsSpace(Ch(s, i))})

\* regexp [\p{L}\p{N}]+ FindAllString: the maximal runs of letters and digits
alnumRE(s) == RunsAt(s, {i \in 1..Len(s) : IsAlnum(Ch(s, i))})
qwordRE(s) == RunsAt(s, {i \in 1..Len(s) : IsAlnum(Ch(s, i))})

\* regexp \p{L}+\p{N}* FindAllString: a maximal run of letters and the digits
\* that follow it
wordRE(s) ==
  LET letters == {i \in 1..Len(s) : IsLetter(Ch(s, i))}
      digits == {i \in 1..Len(s) : IsDigit(Ch(s, i))}
      starts == {i \in letters : i - 1 \notin letters}
      lends == {i \in letters : i + 1 \notin letters}
      EndWithDigits(e) ==
        CHOOSE j \in e..Len(s) : (\A m \in (e + 1)..j : m \in digits) /\ (j + 1) \notin digits
  IN [k \in 1..Cardinality(starts) |-> SubSeq(s, Nth(starts, k), EndWithDigits(Nth(lends, k)))]

SeqToSet(q) == {q[i] : i \in 1..Len(q)}

\* position of the first occurrence of a character of the set cs in s at or
\* after i, 0 if none
IndexFrom(s, cs, i) ==
  LET at == {j \in i..Len(s) : Ch(s, j) \in cs}
  IN IF at = {} THEN 0 ELSE CHOOSE j \in at : \A m \in at : j <= m

\* regexp "([^"]+)"|'([^']+)' FindAllStringSubmatch: the captured groups of
\* the leftmost non-overlapping matches (the curly-quote alternatives need
\* characters outside the alphabet)
RECURSIVE QuotedScan(_, _, _)
QuotedScan(s, i, out) ==
  LET o == IndexFrom(s, {"\"", "'"}, i)
      c == IF o = 0 THEN 0 ELSE IndexFrom(s, {Ch(s, o)}, o + 1)
  IN IF o = 0 THEN out
     ELSE IF c > o + 1 THEN QuotedScan(s, c + 1, Append(out, SubSeq(s, o + 1, c - 1)))
     ELSE QuotedScan(s, o + 1, out)

quotedPhraseRE(s) == QuotedScan(s, 1, <<>>)

(***************************************************************************)
(* Scores: exact rationals <<n, d>>, d > 0, in lowest terms                *)
(***************************************************************************)
RECURSIVE GCD(_, _)
GCD(a, b) == IF b = 0 THEN a ELSE GCD(b, a % b)

Abs(n) == IF n < 0 THEN -n ELSE n

Rat(n, d) == LET g == GCD(Abs(n), d) IN <<n \div g, d \div g>>

RAdd(a, b) == Rat(a[1] * b[2] + b[1] * a[2], a[2] * b[2])
RMul(a, b) == Rat(a[1] * b[1], a[2] * b[2])
\* a / b for b > 0
RDiv(a, b) == Rat(a[1] * b[2], a[2] * b[1])
RLt(a, b) == a[1] * b[2] < b[1] * a[2]
RLe(a, b) == a[1] * b[2] <= b[1] * a[2]
RGt(a, b) == RLt(b, a)
RGe(a, b) == RLe(b, a)
RZero == <<0, 1>>
ROne == <<1, 1>>

(***************************************************************************)
(* Query helpers of internal/services/chat_service.go                      *)
(***************************************************************************)
qStop ==
  {"the", "a", "an", "and", "or", "of", "to", "in",
   "is", "are", "for", "on", "with", "by", "from",
   "at", "as", "that", "this", "it", "be", "was", "were",
   "how", "much", "more", "likely", "do", "does", "what", "which",
   "new", "brands", "products", "find", "out", "about"}

genericContentDrop ==
  {"interested", "interest", "interests",
   "percentage", "percent", "share",
   "likely", "likelihood", "compared", "comparison", "average", "overall",
   "people", "person",
   "new", "brands", "products", "find", "out", "about"}

\* the elements of sequence q that are not in the set drop, in order
RECURSIVE SelectNotIn(_, _)
SelectNotIn(q, drop) ==
  IF Len(q) = 0 THEN <<>>
  ELSE IF Head(q) \in drop THEN SelectNotIn(Tail(q), drop)
  ELSE <<Head(q)>> \o SelectNotIn(Tail(q), drop)

\* a keyword query that keeps the stopwords
simplifyQueryAllTokens(s) ==
  LET toks == qwordRE(ToLower(s))
  IN IF Len(toks) = 0 THEN "" ELSE Join(toks, " ")

simplifyQuery(s) ==
  LET toks == qwordRE(ToLower(s))
      keep == SelectNotIn(toks, qStop)
  IN IF Len(toks) = 0 THEN ""
     ELSE IF Len(keep) = 0 THEN Join(toks, " ")
     ELSE Join(keep, " ")

isNumber(s) ==
  /\ \A i \in 1..Len(s) :
       IsDigit(Ch(s, i)) \/ IsLetter(Ch(s, i)) \/ Ch(s, i) \in {".", ",", "%"}
  /\ \E i \in 1..Len(s) : IsDigit(Ch(s, i))

isCapitalized(s) == s # "" /\ IsUpper(Head(s))

\* queryTerms: entitySlice lists the keys of entities, so it is that set
extractQueryTerms(prompt) ==
  LET p == TrimSpace(prompt)
      lower == ToLower(p)
      tokens == SeqToSet(alnumRE(lower)) \ qStop
      quoted == {ToLower(TrimSpace(g)) : g \in {m \in SeqToSet(quotedPhraseRE(p)) : TrimSpace(m) # ""}}
      words == {ToLower(raw) : raw \in
                  {r \in SeqToSet(alnumRE(p)) :
                     /\ ToLower(r) \notin qStop
                     /\ (isNumber(r) \/ isCapitalized(r) \/ Len(r) >= 6)}}
  IN [allTokens |-> tokens, entities |-> quoted \cup words]

\* the Jaccard plus 0.06 per matched entity, with neither cap nor clamp
overlapRelevanceUncapped(snippet, q) ==
  IF Cardinality(q.allTokens) = 0 THEN RZero
  ELSE
    LET snippetLower == ToLower(snippet)
        sTokens == SeqToSet(alnumRE(snippetLower))
        inter == Cardinality(q.allTokens \cap sTokens)
        union == Cardinality(sTokens) + Cardinality(q.allTokens) - inter
        matched == Cardinality({e \in q.entities : e # "" /\ Contains(snippetLower, e)})
    IN RAdd(Rat(inter, union), Rat(6 * matched, 100))

overlapRelevance(snippet, q) ==
  IF Cardinality(q.allTokens) = 0 THEN RZero
  ELSE
    LET snippetLower == ToLower(snippet)
        sTokens == SeqToSet(alnumRE(snippetLower))
        inter == Cardinality(q.allTokens \cap sTokens)
        union == Cardinality(sTokens) + Cardinality(q.allTokens) - inter
        j == Rat(inter, union)
        matched == Cardinality({e \in q.entities : e # "" /\ Contains(snippetLower, e)})
        boost == IF matched > 4 THEN Rat(24, 100) ELSE Rat(6 * matched, 100)
        score == RAdd(j, boost)
    IN IF RGt(score, ROne) THEN ROne ELSE score

(***************************************************************************)
(* Markdown table cleanup                                                  *)
(***************************************************************************)
\* regexp ^\s*\|.*\|\s*$
mdTableRow(line) ==
  LET t == TrimSpace(line)
  IN Len(t) >= 2 /\ Head(t) = "|" /\ Ch(t, Len(t)) = "|"

\* one cell of a separator row, :?-{3,}:?
IsSepCell(x) ==
  LET a == IF x # "" /\ Head(x) = ":" THEN Tail(x) ELSE x
      b == IF a # "" /\ Ch(a, Len(a)) = ":" THEN SubSeq(a, 1, Len(a) - 1) ELSE a
  IN Len(b) >= 3 /\ \A i \in 1..Len(b) : Ch(b, i) = "-"

\* regexp ^\s*\|?\s*:?-{3,}:?\s*(\|\s*:?-{3,}:?\s*)+\|?\s*$
mdSepRow(line) ==
  LET t == TrimSpace(line)
      a == IF t # "" /\ Head(t) = "|" THEN Tail(t) ELSE t
      b == IF a # "" /\ Ch(a, Len(a)) = "|" THEN SubSeq(a, 1, Len(a) - 1) ELSE a
      cells == Split(b, "|")
  IN Len(cells) >= 2 /\ \A i \in 1..Len(cells) : IsSepCell(TrimSpace(cells[i]))

\* a table body row with its pipes dropped and its cells trimmed
CleanRow(line) ==
  LET row == TrimSpace(line)
      a == IF row # "" /\ Head(row) = "|" THEN Tail(row) ELSE row
      b == IF a # "" /\ Ch(a, Len(a)) = "|" THEN SubSeq(a, 1, Len(a) - 1) ELSE a
      cells == Split(b, "|")
  IN Join([i \in 1..Len(cells) |-> TrimSpace(cells[i])], " ")

\* the loop of stripMarkdownTablesToLines; body is TRUE while the rows of a
\* detected table are being consumed
RECURSIVE StripLoop(_, _, _, _)
StripLoop(lines, i, body, out) ==
  IF i > Len(lines) THEN out
  ELSE IF body
    THEN IF mdTableRow(TrimSpace(lines[i]))
           THEN StripLoop(lines, i + 1, TRUE,
                          IF CleanRow(lines[i]) # "" THEN Append(out, CleanRow(lines[i])) ELSE out)
           ELSE StripLoop(lines, i, FALSE, out)
  ELSE LET line == TrimSpace(lines[i]) IN
    IF mdTableRow(line) /\ i + 1 <= Len(lines) /\ mdSepRow(TrimSpace(lines[i + 1]))
      THEN StripLoop(lines, i + 2, TRUE, out)
      ELSE StripLoop(lines, i + 1, FALSE, IF line # "" THEN Append(out, line) ELSE out)

stripMarkdownTablesToLines(s) ==
  IF s = "" THEN "" ELSE Join(StripLoop(Split(s, "\n"), 1, FALSE, <<>>), "\n")

\* strings.ReplaceAll(s, "\r\n", "\n")
ReplaceCRLF(s) ==
  ConcatAll([i \in 1..Len(s) |->
               IF Ch(s, i) = "\r" /\ i < Len(s) /\ Ch(s, i + 1) = "\n" THEN "" ELSE Ch(s, i)])

RECURSIVE CollapseLoop(_, _)
CollapseLoop(raw, out) ==
  IF Len(raw) = 0 THEN out
  ELSE LET parts == Fields(Head(raw))
       IN CollapseLoop(Tail(raw), IF Len(parts) = 0 THEN out ELSE Append(out, Join(parts, " ")))

collapseWhitespaceLines(s) ==
  IF s = "" THEN "" ELSE Join(CollapseLoop(Split(ReplaceCRLF(s), "\n"), <<>>), "\n")

(***************************************************************************)
(* Content terms and strong entities of retrieve                           *)
(***************************************************************************)
\* contentSet of retrieve (chat_service.go 1019-1064)
contentTerms(prompt) ==
  LET lowerPrompt == ToLower(prompt)
      base == {tok \in SeqToSet(qwordRE(lowerPrompt)) :
                 tok \notin qStop /\ Len(tok) >= 5 /\ tok \notin genericContentDrop}
      quoted == {p \in {ToLower(TrimSpace(g)) : g \in SeqToSet(quotedPhraseRE(prompt))} :
                   Len(p) >= 5 /\ p \notin genericContentDrop}
      caps == {ToLower(raw) : raw \in {r \in SeqToSet(alnumRE(prompt)) : isCapitalized(r)}}
  IN (base \cup quoted) \ caps

containsAny(sLower, terms) == \E t \in terms : t # "" /\ Contains(sLower, t)

\* the compound-capitalised phrases that start at token i
PhrasesAt(toks, i) ==
  LET a == toks[i]
      b == toks[i + 1]
      gen == IF ToLower(a) = "gen" /\ Len(b) = 1 /\ isCapitalized(b)
               THEN {ToLower(a \o " " \o b)} ELSE {}
      bi == IF isCapitalized(a) /\ isCapitalized(b) THEN {ToLower(a \o " " \o b)} ELSE {}
      tri == IF isCapitalized(a) /\ isCapitalized(b) /\ i + 2 <= Len(toks) /\ isCapitalized(toks[i + 2])
               THEN {ToLower(a \o " " \o b \o " " \o toks[i + 2])} ELSE {}
  IN gen \cup bi \cup tri

\* strongEntities of retrieve (chat_service.go 1076-1116)
strongEntities(prompt, q) ==
  LET toks == alnumRE(prompt)
      long == {e \in q.entities : isNumber(e) \/ Len(e) >= 5}
      phrases == UNION {PhrasesAt(toks, i) : i \in 1..(Len(toks) - 1)}
      proper == {ToLower(w) : w \in {t \in SeqToSet(toks) : isCapitalized(t) /\ Len(t) >= 4}}
  IN long \cup phrases \cup proper

\* countStrongHits: the strong entities the snippet contains
countStrongHits(snippet, strong) ==
  {e \in strong : e # "" /\ Contains(ToLower(snippet), e)}

requiredHitsOf(strong) ==
  IF Cardinality(strong) >= 2 THEN 2 ELSE IF Cardinality(strong) = 1 THEN 1 ELSE 0

(***************************************************************************)
(* The paragraph index (package search)                                    *)
(***************************************************************************)
\* the characters of the alphabet in byte order, for Go's < on strings
ByteOrder ==
  "\t\n\r !\"%',-.0123456789:?ABCDEFGHIJKLMNOPQRSTUVWXYZ|abcdefghijklmnopqrstuvwxyz"

Code(c) == CHOOSE i \in 1..Len(ByteOrder) : Ch(ByteOrder, i) = c

\* a < b on strings: bytewise
StrLess(a, b) ==
  LET n == IF Len(a) < Len(b) THEN Len(a) ELSE Len(b)
      diff == {i \in 1..n : Ch(a, i) # Ch(b, i)}
      d == CHOOSE i \in diff : \A j \in diff : i <= j
  IN IF diff = {} THEN Len(a) < Len(b) ELSE Code(Ch(a, d)) < Code(Ch(b, d))

\* tokenize: the set of lower-cased words that are not stopwords
tokenize(s, stop) == SeqToSet(wordRE(ToLower(s))) \ stop

\* a run of spaces, tabs and carriage returns becomes one space
normalizeWhitespace(s) ==
  LET blank(i) == Ch(s, i) \in {" ", "\t", "\r"}
  IN ConcatAll([i \in 1..Len(s) |->
                  IF ~blank(i) THEN Ch(s, i)
                  ELSE IF i > 1 /\ blank(i - 1) THEN "" ELSE " "])

\* a loop that tests the document cap before counting the new document
RECURSIVE BuildLoopLateCap(_, _, _)
BuildLoopLateCap(paragraphs, cfg, docs) ==
  IF Len(paragraphs) = 0 THEN docs
  ELSE LET t == TrimSpace(normalizeWhitespace(Head(paragraphs)))
           toks == tokenize(t, cfg.stopwords)
       IN IF \/ t = ""
             \/ (cfg.minParagraphRunes > 0 /\ Len(t) < cfg.minParagraphRunes)
             \/ Cardinality(toks) = 0
            THEN BuildLoopLateCap(Tail(paragraphs), cfg, docs)
          ELSE IF cfg.maxDocs > 0 /\ Len(docs) >= cfg.maxDocs
            THEN Append(docs, [text |-> t, tokens |-> toks, tLen |-> Cardinality(toks)])
          ELSE BuildLoopLateCap(Tail(paragraphs), cfg, Append(docs, [text |-> t, tokens |-> toks, tLen |-> Cardinality(toks)]))

\* the loop of buildIndex over the paragraphs that are left
RECURSIVE BuildLoop(_, _, _)
BuildLoop(paragraphs, cfg, docs) ==
  IF Len(paragraphs) = 0 THEN docs
  ELSE LET t == TrimSpace(normalizeWhitespace(Head(paragraphs)))
           toks == tokenize(t, cfg.stopwords)
       IN IF \/ t = ""
             \/ (cfg.minParagraphRunes > 0 /\ Len(t) < cfg.minParagraphRunes)
             \/ Cardinality(toks) = 0
            THEN BuildLoop(Tail(paragraphs), cfg, docs)
          ELSE IF cfg.maxDocs > 0 /\ Len(docs) + 1 >= cfg.maxDocs
            THEN Append(docs, [text |-> t, tokens |-> toks, tLen |-> Cardinality(toks)])
          ELSE BuildLoop(Tail(paragraphs), cfg, Append(docs, [text |-> t, tokens |-> toks, tLen |-> Cardinality(toks)]))

\* regexp \n\s*\n Split, then TrimSpace and the empty chunks dropped: the
\* text is cut at every run of white space that holds two newlines or more
splitParasFromBytes(all) ==
  LET ws == {i \in 1..Len(all) : IsSpace(Ch(all, i))}
      runOf(i) == {j \in ws : \A m \in (IF j < i THEN j ELSE i)..(IF j < i THEN i ELSE j) : m \in ws}
      cut == {i \in ws : Cardinality({j \in runOf(i) : Ch(all, j) = "\n"}) >= 2}
      chunks == RunsAt(all, (1..Len(all)) \ cut)
      kept == {k \in 1..Len(chunks) : TrimSpace(chunks[k]) # ""}
  IN [n \in 1..Cardinality(kept) |-> TrimSpace(chunks[Nth(kept, n)])]

defaultConfig == [minParagraphRunes |-> 40, stopwords |-> {}, maxDocs |-> 0]

WithMinParagraphRunes(c, n) == IF n >= 0 THEN [c EXCEPT !.minParagraphRunes = n] ELSE c

WithStopwords(c, words) ==
  LET m == {ToLower(TrimSpace(words[i])) : i \in 1..Len(words)} \ {""}
  IN IF Cardinality(m) > 0 THEN [c EXCEPT !.stopwords = m] ELSE c

WithMaxDocs(c, n) == IF n > 0 THEN [c EXCEPT !.maxDocs = n] ELSE c

\* for _, o := range opts { o(&cfg) }; an option is [name, arg]
RECURSIVE applyOptions(_, _)
applyOptions(c, opts) ==
  IF Len(opts) = 0 THEN c
  ELSE LET o == Head(opts)
           c1 == CASE o.name = "WithMinParagraphRunes" -> WithMinParagraphRunes(c, o.arg)
                   [] o.name = "WithStopwords" -> WithStopwords(c, o.arg)
                   [] o.name = "WithMaxDocs" -> WithMaxDocs(c, o.arg)
       IN applyOptions(c1, Tail(opts))

\* an Index value: kind "nil" is the absent index, "fake" the test double keyed
\* by query (byQuery), "real" the paragraph index (cfg, docs)
buildIndex(paragraphs, cfg) ==
  [kind |-> "real", cfg |-> cfg, docs |-> BuildLoop(paragraphs, cfg, <<>>), byQuery |-> <<>>]

\* &index{cfg: cfg, docs: nil}
emptyIndex(cfg) == [kind |-> "real", cfg |-> cfg, docs |-> <<>>, byQuery |-> <<>>]

NewIndexFromStrings(paragraphs, opts) == buildIndex(paragraphs, applyOptions(defaultConfig, opts))

\* a constructor that indexes what was read before the read failed
NewIndexFromReaderPartial(r, opts) ==
  LET cfg == applyOptions(defaultConfig, opts)
  IN [index |-> buildIndex(splitParasFromBytes(r.text), cfg), err |-> ~r.readable]

\* r is [readable, text]: io.ReadAll fails on an unreadable r, and text is then
\* what was read before the failure
NewIndexFromReader(r, opts) ==
  LET cfg == applyOptions(defaultConfig, opts)
  IN IF ~r.readable THEN [index |-> emptyIndex(cfg), err |-> TRUE]
     ELSE [index |-> buildIndex(splitParasFromBytes(r.text), cfg), err |-> FALSE]

\* file is [readable, text]: os.ReadFile fails on an unreadable path
NewIndexFromMarkdown(file, opts) ==
  IF ~file.readable THEN [index |-> emptyIndex(defaultConfig), err |-> TRUE]
  ELSE NewIndexFromReader([readable |-> TRUE, text |-> file.text], opts)

\* a comparison without the last key, the text
scoredLessNoText(a, b) ==
  IF a.score # b.score THEN RGt(a.score, b.score)
  ELSE Len(a.snippet) < Len(b.snippet)

\* the comparison of TopK's sort: score descending, rune length ascending, text ascending
scoredLess(a, b) ==
  IF a.score # b.score THEN RGt(a.score, b.score)
  ELSE IF Len(a.snippet) # Len(b.snippet) THEN Len(a.snippet) < Len(b.snippet)
  ELSE StrLess(a.snippet, b.snippet)

RECURSIVE InsertScored(_, _)
InsertScored(sorted, x) ==
  IF Len(sorted) = 0 THEN <<x>>
  ELSE IF scoredLess(x, Head(sorted)) THEN <<x>> \o sorted
  ELSE <<Head(sorted)>> \o InsertScored(Tail(sorted), x)

RECURSIVE SortScored(_)
SortScored(buf) ==
  IF Len(buf) = 0 THEN <<>> ELSE InsertScored(SortScored(SubSeq(buf, 1, Len(buf) - 1)), buf[Len(buf)])

\* overlap: the number of tokens the two sets share
overlap(a, b) == IF Cardinality(a) = 0 \/ Cardinality(b) = 0 THEN 0 ELSE Cardinality(a \cap b)

\* the score with the shared tokens counted twice in the union
jaccardPlain(over, qLen, tLen) == Rat(over, qLen + tLen)

\* float64(over) / float64(qLen + d.tLen - over)
jaccard(over, qLen, tLen) == Rat(over, qLen + tLen - over)

\* the body of TopK's loop over i.docs: buf after document d
topKVisit(buf, d, qTokens) ==
  LET over == overlap(qTokens, d.tokens)
      qLen == Cardinality(qTokens)
      union == qLen + d.tLen - over
  IN IF over = 0 THEN buf
     ELSE IF union <= 0 THEN buf
     ELSE IF RLe(jaccard(over, qLen, d.tLen), RZero) THEN buf
     ELSE Append(buf, [snippet |-> d.text, score |-> jaccard(over, qLen, d.tLen)])

RECURSIVE ScoreDocs(_, _)
ScoreDocs(docs, qTokens) ==
  IF Len(docs) = 0 THEN <<>>
  ELSE topKVisit(ScoreDocs(SubSeq(docs, 1, Len(docs) - 1), qTokens), docs[Len(docs)], qTokens)

\* what TopK returns: nil, or a slice of Results
NilResults == [isNil |-> TRUE, items |-> <<>>]
Results(items) == [isNil |-> FALSE, items |-> items]

\* the early returns of TopK
topKEarlyNil(i, q) ==
  \/ Len(i.docs) = 0
  \/ TrimSpace(q) = ""
  \/ Cardinality(tokenize(q, i.cfg.stopwords)) = 0

\* an end of TopK that hands out the empty buf as an empty, non-nil slice
topKFinishEmptySlice(buf, k) ==
  LET kk == IF k <= 0 THEN 3 ELSE k
      sorted == SortScored(buf)
  IN Results(SubSeq(sorted, 1, IF kk > Len(sorted) THEN Len(sorted) ELSE kk))

\* a sort that orders the index's own documents instead of the local buf
docsSortedInPlace(docs, buf) ==
  IF Len(docs) = 0 THEN docs ELSE Tail(docs) \o <<Head(docs)>>

\* sort.SliceStable works on buf, a slice local to the call: the documents of
\* the index are what they were
docsAfterSort(docs, buf) == docs

\* the end of TopK, from the filled buf on: nil for an empty buf, else the
\* sorted buf cut to k
topKFinish(buf, k) ==
  LET kk == IF k <= 0 THEN 3 ELSE k
      sorted == SortScored(buf)
  IN IF Len(buf) = 0 THEN NilResults
     ELSE Results(SubSeq(sorted, 1, IF kk > Len(sorted) THEN Len(sorted) ELSE kk))

\* (*index).TopK with its nil and non-nil returns told apart
indexTopKRet(i, q, k) ==
  IF topKEarlyNil(i, q) THEN NilResults
  ELSE topKFinish(ScoreDocs(i.docs, tokenize(q, i.cfg.stopwords)), k)

indexTopK(i, q, k) == indexTopKRet(i, q, k).items

fakeTopK(f, q, k) ==
  LET rs == IF q \in DOMAIN f.byQuery THEN f.byQuery[q] ELSE <<>>
  IN IF Len(rs) > k THEN SubSeq(rs, 1, k) ELSE rs

\* Index.TopK through the interface
TopK(idx, q, k) == IF idx.kind = "real" THEN indexTopK(idx, q, k) ELSE fakeTopK(idx, q, k)

(***************************************************************************)
(* MessageService.retrieve                                                 *)
(***************************************************************************)
DeclineMsg == "I can't answer that from the provided data."
NoScore == <<>>
NoCall == <<>>
NilIndex == [kind |-> "nil", cfg |-> <<>>, docs |-> <<>>, byQuery |-> <<>>]

strictFloor == Rat(20, 100)
lenientFloor == Rat(10, 100)

\* const K of retrieve: the candidates asked of the index
K == 10

\* retrieve without the simplified retry
FetchResultsNoRetry(idx, prompt) ==
  [results |-> TopK(idx, prompt, K), calls |-> <<prompt>>]

\* the TopK calls of retrieve and their result: the prompt, then once the
\* simplified prompt when the first call found nothing
FetchResults(idx, prompt) ==
  LET first == TopK(idx, prompt, K)
      simplified == simplifyQuery(prompt)
  IN IF Len(first) = 0 /\ simplified # "" /\ simplified # prompt
       THEN [results |-> TopK(idx, simplified, K), calls |-> <<prompt, simplified>>]
       ELSE [results |-> first, calls |-> <<prompt>>]

RECURSIVE MaxScoreOf(_, _)
MaxScoreOf(results, m) ==
  IF Len(results) = 0 THEN m
  ELSE MaxScoreOf(Tail(results), IF RGt(Head(results).score, m) THEN Head(results).score ELSE m)

maxScoreOf(results) ==
  LET m == MaxScoreOf(results, RZero) IN IF m = RZero THEN ROne ELSE m

\* gate 1 left out: every snippet passes
contentGateOff(sLower, terms) == TRUE

\* gate 1: with content terms, the snippet must contain one of them
contentGate(sLower, terms) == Cardinality(terms) > 0 => containsAny(sLower, terms)

\* gate 2 with the overlap escape also open to a query of two or more strong
\* entities
strongGateOverlapEscape(requiredHits, hitCount, ov, clean) ==
  IF requiredHits >= 1 THEN ~(hitCount < requiredHits /\ RLt(ov, strictFloor))
  ELSE ~(RLt(ov, lenientFloor) /\ Len(clean) < 12)

\* gate 2 with the lenient floor used for a query of one strong entity
strongGateLenient(requiredHits, hitCount, ov, clean) ==
  IF requiredHits >= 2 THEN ~(hitCount < 2)
  ELSE IF requiredHits = 1 THEN ~(hitCount < 1 /\ RLt(ov, lenientFloor))
  ELSE ~(RLt(ov, lenientFloor) /\ Len(clean) < 12)

\* gate 2: the strong-entity gate
strongGate(requiredHits, hitCount, ov, clean) ==
  IF requiredHits >= 2 THEN ~(hitCount < 2)
  ELSE IF requiredHits = 1 THEN ~(hitCount < 1 /\ RLt(ov, strictFloor))
  ELSE ~(RLt(ov, lenientFloor) /\ Len(clean) < 12)

\* one pass of the candidate loop: the candidate of result r, or none
candOf(r, q, terms, strong, maxScore) ==
  LET clean == stripMarkdownTablesToLines(TrimSpace(r.snippet))
      sLower == ToLower(clean)
      ov == overlapRelevance(clean, q)
      ns == RDiv(r.score, maxScore)
      combined == RAdd(RMul(Rat(1, 2), ns), RMul(Rat(1, 2), ov))
      hitSet == countStrongHits(clean, strong)
      hitCount == Cardinality(hitSet)
      requiredHits == requiredHitsOf(strong)
  IN IF clean = "" THEN <<>>
     ELSE IF ~contentGate(sLower, terms) THEN <<>>
     ELSE IF ~strongGate(requiredHits, hitCount, ov, clean) THEN <<>>
     ELSE <<[text |-> clean,
             indexScore |-> r.score,
             overlapRel |-> ov,
             combined |-> IF hitCount > requiredHits THEN RAdd(combined, Rat(3, 100)) ELSE combined,
             strongEntHit |-> hitSet]>>

RECURSIVE CandLoop(_, _, _, _, _)
CandLoop(results, q, terms, strong, maxScore) ==
  IF Len(results) = 0 THEN <<>>
  ELSE candOf(Head(results), q, terms, strong, maxScore)
       \o CandLoop(Tail(results), q, terms, strong, maxScore)

buildCands(results, prompt) ==
  LET q == extractQueryTerms(prompt)
  IN CandLoop(results, q, contentTerms(prompt), strongEntities(prompt, q), maxScoreOf(results))

\* any order of the candidates in which combined never increases: all that
\* the contract of sort.Slice promises, equal elements in either order
Rankings(cands) ==
  {[i \in 1..Len(cands) |-> cands[p[i]]] : p \in
     {p \in Permutations(1..Len(cands)) :
        \A i \in 1..(Len(cands) - 1) : RGe(cands[p[i]].combined, cands[p[i + 1]].combined)}}

\* one pass of the insertion sort: x moves left past the elements whose
\* combined is lower than its own
RECURSIVE insertLess(_, _)
insertLess(sorted, x) ==
  IF Len(sorted) = 0 THEN <<x>>
  ELSE IF RGt(x.combined, sorted[Len(sorted)].combined)
    THEN Append(insertLess(SubSeq(sorted, 1, Len(sorted) - 1), x), sorted[Len(sorted)])
  ELSE Append(sorted, x)

RECURSIVE insertionSort(_)
insertionSort(data) ==
  IF Len(data) = 0 THEN <<>>
  ELSE insertLess(insertionSort(SubSeq(data, 1, Len(data) - 1)), data[Len(data)])

\* sort.Slice by combined, descending, as the toolchain of the build (Go 1.23)
\* runs it on the at most K candidates: an insertion sort for up to 12
\* elements, which leaves equal elements in their order. The set of the
\* orders a call may leave.
sortSlice(cands) == {insertionSort(cands)}

effectiveThreshold(thr) == IF RLe(thr, RZero) THEN Rat(20, 100) ELSE thr

\* the threshold test made on the blended score
belowThresholdCombined(top, thr) == RLt(top.combined, effectiveThreshold(thr))

\* the threshold test with the comparison turned round
belowThresholdFlipped(top, thr) == RGt(top.indexScore, effectiveThreshold(thr))

belowThreshold(top, thr) == RLt(top.indexScore, effectiveThreshold(thr))

\* the second-ranked candidate appended on closeness alone
mergesSecondClose(ranked) ==
  /\ Len(ranked) > 1
  /\ RGe(ranked[2].combined, RMul(ranked[1].combined, Rat(9, 10)))

\* whether the second-ranked candidate is appended to the reply
mergesSecond(ranked) ==
  /\ Len(ranked) > 1
  /\ RGe(ranked[2].combined, RMul(ranked[1].combined, Rat(9, 10)))
  /\ \A e \in ranked[1].strongEntHit : e \in ranked[2].strongEntHit

\* an end of retrieve that appends every ranked candidate to the reply
decideAllRanked(ranked, thr) ==
  IF Len(ranked) = 0 THEN [reply |-> DeclineMsg, score |-> NoScore]
  ELSE IF belowThreshold(ranked[1], thr) THEN [reply |-> DeclineMsg, score |-> NoScore]
  ELSE [reply |-> collapseWhitespaceLines(
                    ConcatAll([i \in 1..Len(ranked) |->
                                 IF i = 1 THEN ranked[i].text ELSE "\n" \o ranked[i].text])),
        score |-> ranked[1].indexScore]

\* the end of retrieve, from the ranked candidates on
decide(ranked, thr) ==
  IF Len(ranked) = 0 THEN [reply |-> DeclineMsg, score |-> NoScore]
  ELSE IF belowThreshold(ranked[1], thr) THEN [reply |-> DeclineMsg, score |-> NoScore]
  ELSE [reply |-> collapseWhitespaceLines(
                    IF mergesSecond(ranked) THEN ranked[1].text \o "\n" \o ranked[2].text
                    ELSE ranked[1].text),
        score |-> ranked[1].indexScore]

(***************************************************************************)
(* The inputs of the retrieval model                                       *)
(***************************************************************************)
Res(snippet, n, d) == [snippet |-> snippet, score |-> Rat(n, d)]

Prompts ==
  {"Gen Z Nashville",
   "Gen Z in Nashville",
   "Gen Z in Nashville streaming platforms",
   "Gen Z in Nashville spend on streaming platforms",
   "Gen Z Nashville platforms",
   "What do Gen Z in Nashville do?",
   "Nashville apps",
   "Gen Z apps",
   "apps art",
   "music apps",
   "Nashville music apps",
   "apps music",
   "the of",
   "Of the?",
   "??"}

Paragraphs ==
  <<"Gen Z in Nashville spend more on streaming platforms.",
    "Nashville Gen Z show strong adoption of podcasts.",
    "apps",
    "| City | Use |\n|---|---|\n| Nashville | apps |",
    "music apps art">>

IndexCfg == [minParagraphRunes |-> 0, stopwords |-> {}, maxDocs |-> 0]

FakeA ==
  [kind |-> "fake", cfg |-> <<>>, docs |-> <<>>, byQuery |->
     [p \in {"Gen Z Nashville", "Gen Z in Nashville", "Gen Z in Nashville streaming platforms",
             "Gen Z Nashville platforms", "gen z nashville", "Nashville apps", "apps art",
             "Gen Z apps", "music apps", "Nashville music apps", "apps music"} |->
        CASE p = "Gen Z Nashville" -> <<Res("Gen Z trends continue nationwide.", 9, 10)>>
          [] p = "Gen Z in Nashville" ->
               <<Res("Gen Z in Nashville adopt streaming quickly.", 70, 100),
                 Res("Gen Z trends differ across cities.", 69, 100)>>
          [] p = "Gen Z in Nashville streaming platforms" ->
               <<Res("Gen Z in Nashville streaming platforms adoption.", 70, 100),
                 Res("Nashville Gen Z STREAMING Platforms show growth.", 69, 100),
                 Res("Streaming platforms: Gen Z, Nashville", 10, 100)>>
          [] p = "Gen Z Nashville platforms" -> <<Res("Gen Z and Nashville facts only.", 9, 10)>>
          [] p = "gen z nashville" -> <<>>
          [] p = "Nashville apps" ->
               <<Res("popular apps trend", 30, 100),
                 Res("popular apps trend today now", 90, 100),
                 Res("hot apps trend now", 60, 100)>>
          [] p = "apps art" ->
               <<Res("hey", 9, 10), Res("hello world!", 5, 10), Res("hello world", 4, 10)>>
          [] p = "Gen Z apps" -> <<Res("top picks today", 7, 10), Res("five apps", 1, 10)>>
          [] p = "music apps" -> <<Res("apps for art", 9, 10), Res("music apps", 3, 10)>>
          [] p = "Nashville music apps" ->
               <<Res("Nashville music apps today", 50, 100),
                 Res("music apps in town", 80, 100)>>
          [] p = "apps music" ->
               <<Res("music apps", 60, 100), Res("music apps daily", 90, 100)>>]]

FakeB ==
  [kind |-> "fake", cfg |-> <<>>, docs |-> <<>>, byQuery |->
     [p \in {"Gen Z Nashville", "Gen Z in Nashville", "gen z nashville", "Nashville apps",
             "apps art", "Gen Z apps", "music apps", "Nashville music apps", "the of"} |->
        CASE p = "Gen Z Nashville" -> <<Res("Nashville Gen Z streaming", 1, 100)>>
          [] p = "Gen Z in Nashville" ->
               <<Res("| Group | City |\n| --- | --- |\n| Gen Z | Nashville |", 15, 100),
                 Res("Gen Z | Nashville", 9, 10)>>
          [] p = "gen z nashville" -> <<Res("Gen Z in Nashville adopt streaming quickly.", 1, 2)>>
          [] p = "Nashville apps" ->
               <<Res("top picks today", 7, 10), Res("Nashville apps guide", 15, 100)>>
          [] p = "apps art" ->
               <<Res("hey there apps", 15, 100), Res("art", 15, 100), Res("  \n ", 1, 1)>>
          [] p = "Gen Z apps" -> <<Res("gen zebra mobile apps", 1, 4), Res("Gen Z use apps", 1, 5)>>
          [] p = "music apps" ->
               <<Res("weather report for the long weekend ahead with music", 9, 10),
                 Res("music apps", 3, 10)>>
          [] p = "Nashville music apps" ->
               <<Res("Nashville music apps today", 80, 100),
                 Res("Nashville music apps now", 75, 100),
                 Res("Nashville music apps here", 70, 100)>>
          [] p = "the of" -> <<Res("the end of it", 1, 2)>>]]

Indexes == {NilIndex, FakeA, FakeB, buildIndex(Paragraphs, IndexCfg)}

\* configured thresholds; a value <= 0 selects the default
Thresholds == {Rat(-1, 10), Rat(0, 1), Rat(5, 100), Rat(10, 100), Rat(20, 100), Rat(50, 100), Rat(90, 100)}

(***************************************************************************)
(* MessageService: the whole of retrieve as a function, and the titles     *)
(***************************************************************************)
\* retrieve(prompt) on a service with this index and threshold: the
\* (reply, score) pairs it may return, one for each order sort.Slice may
\* leave equal candidates in
retrieve(idx, thr, p) ==
  IF idx.kind = "nil" THEN {[reply |-> DeclineMsg, score |-> NoScore]}
  ELSE LET f == FetchResults(idx, p)
       IN IF Len(f.results) = 0 THEN {[reply |-> DeclineMsg, score |-> NoScore]}
          ELSE {decide(r, thr) : r \in sortSlice(buildCands(f.results, p))}

roleUser == "user"
roleAssistant == "assistant"
defaultTitleNew == "New chat"
defaultTitleUntitled == "Untitled"

titleStopWords ==
  {"the", "a", "an", "and", "or", "of", "to", "in", "is", "are", "for", "on", "with",
   "by", "from", "at", "as", "that", "this", "it", "be", "was", "were"}

titleWordRE(s) == wordRE(s)

ToUpperCh(c) ==
  IF c \in LowerSet
    THEN Ch(UpperLetters, CHOOSE i \in 1..Len(LowerLetters) : Ch(LowerLetters, i) = c)
    ELSE c

\* cases.Title on one lower-case word
titleCaser(w) == IF w = "" THEN "" ELSE ToUpperCh(Head(w)) \o Tail(w)

shouldAutoTitle(current) ==
  LET t == TrimSpace(ToLower(current))
  IN t = "" \/ t = ToLower(defaultTitleNew) \/ t = ToLower(defaultTitleUntitled)

generateTitleFromPrompt(p) ==
  LET toks == titleWordRE(ToLower(TrimSpace(p)))
      kept == SelectNotIn(toks, titleStopWords)
      out == IF Len(kept) > 8 THEN SubSeq(kept, 1, 8) ELSE kept
  IN IF TrimSpace(p) = "" \/ Len(toks) = 0 \/ Len(out) = 0 THEN ""
     ELSE Join([i \in 1..Len(out) |-> titleCaser(out[i])], " ")

clipTitle(title, titleMaxLen) ==
  LET max == IF titleMaxLen <= 0 THEN 60 ELSE titleMaxLen
  IN IF Len(title) > max THEN SubSeq(title, 1, max) ELSE title

\* the clip of the returned assistant message at the end of Answer
clipReply(content, maxReplyRunes) ==
  IF maxReplyRunes > 0 /\ Len(content) > maxReplyRunes
    THEN SubSeq(content, 1, maxReplyRunes)
    ELSE content

(***************************************************************************)
(* HTTP layer: pure helpers of the middleware and of the handler           *)
(***************************************************************************)
HexSet == CharSet("0123456789abcdefABCDEF")

\* uuid.Parse as PostMessage uses it: whether the text has the shape
\* xxxxxxxx-xxxx-xxxx-xxxx-xxxxxxxxxxxx of hex digits
IsUUID(s) ==
  /\ Len(s) = 36
  /\ \A i \in 1..36 :
       IF i \in {9, 14, 19, 24} THEN Ch(s, i) = "-" ELSE Ch(s, i) \in HexSet

\* the default pattern of IdempotencyValidator: ^[A-Za-z0-9._~\-:]+$
KeyPattern(key) ==
  /\ Len(key) >= 1
  /\ \A i \in 1..Len(key) : IsAlnum(Ch(key, i)) \/ Ch(key, i) \in {".", "_", "~", "-", ":"}

\* regexp \n{3,} replaced by two newlines: of a run of newlines the third
\* and later ones go
nlCollapse(s) ==
  ConcatAll([i \in 1..Len(s) |->
               IF i >= 3 /\ Ch(s, i) = "\n" /\ Ch(s, i - 1) = "\n" /\ Ch(s, i - 2) = "\n"
                 THEN "" ELSE Ch(s, i)])

ReplaceCR(s) == ConcatAll([i \in 1..Len(s) |-> IF Ch(s, i) = "\r" THEN "\n" ELSE Ch(s, i)])

sanitizeContent(raw) == TrimSpace(nlCollapse(ReplaceCR(ReplaceCRLF(raw))))

discoverMaxPromptRunes(maxPromptRunes) == IF maxPromptRunes > 0 THEN maxPromptRunes ELSE 4000

\* handlers.userID: the context value "userID", then the X-User-ID header,
\* then "demo-user"
userID(ctxUser, xUserID) ==
  IF ctxUser # "" THEN ctxUser
  ELSE IF TrimSpace(xUserID) # "" THEN TrimSpace(xUserID)
  ELSE "demo-user"

\* middleware.userIDFromCtx: the context value "userID", else "demo-user"
userIDFromCtx(ctxUser) == IF ctxUser # "" THEN ctxUser ELSE "demo-user"

\* middleware.KeyByUserOrIP
KeyByUserOrIP(ctxUser, clientIP) ==
  IF ctxUser # "" THEN "user:" \o ctxUser ELSE "ip:" \o clientIP

middlewareGetIdempotencyKey(header) == TrimSpace(header)

(***************************************************************************)
(* Repositories                                                            *)
(***************************************************************************)
\* the expiry test turned round
GetIdempotencyFlipped(table, user, chat, key, t) ==
  IF TrimSpace(chat) = "" THEN {}
  ELSE {r \in table : r.userID = user /\ r.chatID = chat /\ r.key = key /\ r.expiresAt < t}

\* repo.GetIdempotency: the records of (user, chat, key) not yet expired
GetIdempotency(table, user, chat, key, t) ==
  IF TrimSpace(chat) = "" THEN {}
  ELSE {r \in table : r.userID = user /\ r.chatID = chat /\ r.key = key /\ r.expiresAt > t}

\* the unique index ux_user_chat_key
IdemUniqueViolation(table, user, chat, key) ==
  \E r \in table : r.userID = user /\ r.chatID = chat /\ r.key = key

\* a CreateIdempotency that replaces the record of the same user, chat and key
CreateIdempotencyUpsert(table, user, chat, key, messageID, status, t, ttl) ==
  {r \in table : ~(r.userID = user /\ r.chatID = chat /\ r.key = key)}
    \cup {[userID |-> user, chatID |-> chat, key |-> key, messageID |-> messageID,
            status |-> status, expiresAt |-> t + ttl]}

\* repo.CreateIdempotency: the table after the insert; a unique violation
\* leaves it as it is
CreateIdempotency(table, user, chat, key, messageID, status, t, ttl) ==
  IF IdemUniqueViolation(table, user, chat, key) THEN table
  ELSE table \cup {[userID |-> user, chatID |-> chat, key |-> key, messageID |-> messageID,
                    status |-> status, expiresAt |-> t + ttl]}

\* repo.GetMessage
GetMessage(msgs, id) == {msgs[i] : i \in {j \in 1..Len(msgs) : msgs[j].id = id}}

\* a GetChat that does not look at the owner
GetChatAnyOwner(chatTable, id, user) == {c \in DOMAIN chatTable : c = id}

\* repo.GetChat: the chat of that id owned by that user
GetChat(chatTable, id, user) ==
  {c \in DOMAIN chatTable : c = id /\ chatTable[c].userID = user}

(***************************************************************************)
(* The service RegisterRoutes wires, and the requests of the HTTP model    *)
(***************************************************************************)
\* IdempotencyOptions.MaxLen as RegisterRoutes sets it
idemMaxLen == 200

\* MessageService.TitleMaxLen as RegisterRoutes sets it
TitleMaxLen == 6

\* MessageService.MaxPromptRunes and MaxReplyRunes: RegisterRoutes sets 2000
\* and 1500; the model keeps prompts and replies short and scales both
MaxPromptRunes == 24
MaxReplyRunes == 60

\* config.RateRPS (tokens per second) and config.RateBurst; the model's
\* burst is scaled down from the default of 10
RateRPS == 5
RateBurst == 1

\* the lookups between two sweeps of getVisitor, and the idle time after
\* which a visitor is evicted (minutes)
cleanupEvery == 5000
visitorTTL == 10

\* the lifetime of an idempotency record: 24 hours, in minutes
IdemTTL == 24 * 60

\* the clock of the model, in minutes: it advances by TickMinutes up to MaxNow
TickMinutes == 720
MaxNow == 1440

\* the number of requests of a run
MaxRequests == 2

\* the context value "userID": no middleware of RegisterRoutes sets it
CtxUserID == ""

ChatA == "11111111-1111-4111-8111-111111111111"
ChatD == "22222222-2222-4222-8222-222222222222"

\* the chats table before the first request: one chat of alice with the
\* placeholder title, one of demo-user with a title of its own
InitChats ==
  (ChatA :> [userID |-> "alice", title |-> defaultTitleNew])
    @@ (ChatD :> [userID |-> "demo-user", title |-> "Roadmap"])

XUserIDs == {"", "alice"}
ChatParams == {ChatA, ChatD}
KeyHeaders == {"", "k1", "k 1"}
Bodies == {"Gen Z Nashville", "??", " \r\n", "What do Gen Z in Nashville do?"}
ClientIPs == {"203.0.113.7"}

\* the index and threshold of the service: the built index, config's default
\* threshold of 0.32
HttpIndex == buildIndex(Paragraphs, IndexCfg)
HttpThreshold == Rat(32, 100)

\* retrieve of the service on each prompt a request can carry
RetrieveOfService ==
  [p \in {TrimSpace(sanitizeContent(b)) : b \in Bodies} |->
     retrieve(HttpIndex, HttpThreshold, p)]

NoMsg == <<>>
NoResp == [status |-> 0, replayed |-> FALSE, message |-> NoMsg, retryAfter |-> ""]

\* a request as it arrives. hadRecord and took are history: whether an
\* unexpired idempotency record of its user, chat and key existed when it
\* arrived, and whether the rate limiter took a token for it
NewReq(xuser, chat, key, body, ip, hadRecord) ==
  [xuser |-> xuser, chat |-> chat, key |-> key, body |-> body, ip |-> ip,
   pc |-> "validator", bypass |-> FALSE, took |-> FALSE, title |-> "",
   m |-> NoMsg, resp |-> NoResp, hadRecord |-> hadRecord]

Respond(status, replayed, message, retryAfter) ==
  [status |-> status, replayed |-> replayed, message |-> message, retryAfter |-> retryAfter]

\* NewRateLimiter: a burst <= 0 becomes 1
effectiveBurst(b) == IF b <= 0 THEN 1 ELSE b

Min(a, b) == IF a < b THEN a ELSE b

\* the tokens of a rate.Limiter at time t: refilled at RateRPS a second,
\* never above the burst
tokensAt(lim, t) == Min(effectiveBurst(RateBurst), lim.tokens + RateRPS * 60 * (t - lim.last))

\* the sweep of getVisitor: the visitors left after evicting the idle ones
sweep(vs, t) == [k \in {k \in DOMAIN vs : ~(t - vs[k].lastSeen >= visitorTTL)} |-> vs[k]]

(***************************************************************************)
(* State                                                                   *)
(***************************************************************************)
VARIABLES
  Index,      \* MessageService.Index
  Threshold,  \* MessageService.Threshold
  prompt,     \* the argument of retrieve
  rpc,        \* "called" until retrieve returns, then "returned"
  calls,      \* the queries passed to Index.TopK, in order
  results,    \* retrieve's results
  cands,      \* retrieve's cands before the sort
  ranked,     \* retrieve's cands after the sort
  reply,      \* the returned reply
  score,      \* the returned score, NoScore for nil
  again       \* what a second call of retrieve returned, NoCall before it

rvars == <<Index, Threshold, prompt, rpc, calls, results, cands, ranked, reply, score, again>>

VARIABLES
  now,        \* the clock, in minutes
  chats,      \* table chats: id -> [userID, title]
  messages,   \* table messages, in insertion order
  idem,       \* table idempotency
  visitors,   \* RateLimiter.visitors: key -> [tokens, last, lastSeen]
  cleanupN,   \* RateLimiter.cleanupN
  reqs        \* the requests, in order of arrival, each with its position

hvars == <<now, chats, messages, idem, visitors, cleanupN, reqs>>

VARIABLES
  source,     \* what the index is constructed from: constructor, input, options
  ipc,        \* "new" until the constructor has returned, then "built"
  buildErr,   \* whether the constructor returned an error
  tcalls      \* the TopK calls made on the index, each with its locals

ivars == <<source, ipc, buildErr, tcalls>>

VARIABLES
  rl,         \* the RateLimiter: burst, visitors (key -> limiter, lastSeen), cleanupN
  lims,       \* the rate.Limiter objects ever created: tokens, last
  mnow,       \* the clock of the middleware chain, in minutes
  mreqs       \* the requests going through the middleware chain

lvars == <<rl, lims, mnow, mreqs>>

VARIABLES
  feedbacks,  \* table feedbacks: the committed rows [messageID, userID, value]
  leaves,     \* the calls of FeedbackService.Leave, each with its locals
  acalls      \* the calls of MessageService.Answer and ListPage, each with its locals

svars == <<feedbacks, leaves, acalls>>

\* the state of the runs that have a specification of their own
xvars == <<lvars, svars>>

vars == <<rvars, hvars, ivars, xvars>>

\* no middleware chain under observation
InitNoMiddlewareRun ==
  /\ rl = <<>>
  /\ lims = <<>>
  /\ mnow = 0
  /\ mreqs = <<>>

\* no service call under observation
InitNoServiceRun ==
  /\ feedbacks = {}
  /\ leaves = <<>>
  /\ acalls = <<>>

InitNoExtras == InitNoMiddlewareRun /\ InitNoServiceRun

\* no index under construction and no TopK call of its own
InitNoIndexRun ==
  /\ source = <<>>
  /\ ipc = "built"
  /\ buildErr = FALSE
  /\ tcalls = <<>>

\* the database, the limiter and the clock before the first request
InitServer ==
  /\ now = 0
  /\ chats = InitChats
  /\ messages = <<>>
  /\ idem = {}
  /\ visitors = <<>>
  /\ cleanupN = 0
  /\ reqs = <<>>

InitRetrieve ==
  /\ Index \in Indexes
  /\ Threshold \in Thresholds
  /\ prompt \in Prompts
  /\ rpc = "called"
  /\ calls = <<>>
  /\ results = <<>>
  /\ cands = <<>>
  /\ ranked = <<>>
  /\ reply = ""
  /\ score = NoScore
  /\ again = NoCall
  /\ InitServer
  /\ InitNoIndexRun
  /\ InitNoExtras

\* retrieve with an absent index
RetrieveNilIndex ==
  /\ rpc = "called"
  /\ Index.kind = "nil"
  /\ rpc' = "returned"
  /\ reply' = DeclineMsg
  /\ score' = NoScore
  /\ UNCHANGED <<Index, Threshold, prompt, calls, results, cands, ranked, again>>
  /\ UNCHANGED <<hvars, ivars, xvars>>

\* retrieve with an index
Retrieve ==
  /\ rpc = "called"
  /\ Index.kind # "nil"
  /\ LET f == FetchResults(Index, prompt)
         cs == IF Len(f.results) = 0 THEN <<>> ELSE buildCands(f.results, prompt)
     IN /\ calls' = f.calls
        /\ results' = f.results
        /\ cands' = cs
        /\ \E r \in sortSlice(cs) :
             /\ ranked' = r
             /\ reply' = decide(r, Threshold).reply
             /\ score' = decide(r, Threshold).score
  /\ rpc' = "returned"
  /\ UNCHANGED <<Index, Threshold, prompt, again>>
  /\ UNCHANGED <<hvars, ivars, xvars>>

\* retrieve called once more on the same service with the same prompt
RetrieveAgain ==
  /\ rpc = "returned"
  /\ again = NoCall
  /\ \E out \in retrieve(Index, Threshold, prompt) : again' = out
  /\ UNCHANGED <<Index, Threshold, prompt, rpc, calls, results, cands, ranked, reply, score>>
  /\ UNCHANGED <<hvars, ivars, xvars>>

NextRetrieve == RetrieveNilIndex \/ Retrieve \/ RetrieveAgain

SpecRetrieve == InitRetrieve /\ [][NextRetrieve]_vars

(***************************************************************************)
(* POST /chats/:id/messages through the middleware chain of RegisterRoutes *)
(***************************************************************************)
InitHttp ==
  /\ Index = HttpIndex
  /\ Threshold = HttpThreshold
  /\ prompt = ""
  /\ rpc = "idle"
  /\ calls = <<>>
  /\ results = <<>>
  /\ cands = <<>>
  /\ ranked = <<>>
  /\ reply = ""
  /\ score = NoScore
  /\ again = NoCall
  /\ InitServer
  /\ InitNoIndexRun
  /\ InitNoExtras

\* request i moves on as record r
Step(i, r) == reqs' = [reqs EXCEPT ![i] = r]

Finish(i, resp) == Step(i, [reqs[i] EXCEPT !.pc = "done", !.resp = resp])

\* sanitizeContent of each body a request can carry, computed once
SanitizedBodies == [b \in Bodies |-> sanitizeContent(b)]

\* the values PostMessage works with
ContentOf(r) == SanitizedBodies[r.body]
CurrentUser(r) == userID(CtxUserID, r.xuser)
IdemKeyOf(r) == middlewareGetIdempotencyKey(r.key)

\* the user a request is made as: the X-User-ID header, else demo-user
SenderOf(xuser) == IF xuser # "" THEN xuser ELSE "demo-user"

\* whether the table holds an unexpired record of (user, chat, key)
LiveRecord(user, chat, key) ==
  \E x \in idem : x.userID = user /\ x.chatID = chat /\ x.key = key /\ x.expiresAt > now

\* a client sends a request
Send ==
  /\ Len(reqs) < MaxRequests
  /\ \E xuser \in XUserIDs, chat \in ChatParams, key \in KeyHeaders, body \in Bodies,
        ip \in ClientIPs :
       reqs' = Append(reqs, NewReq(xuser, chat, key, body, ip,
                                   LiveRecord(SenderOf(xuser), chat, key)))
  /\ UNCHANGED <<now, chats, messages, idem, visitors, cleanupN>>
  /\ UNCHANGED <<rvars, ivars, xvars>>

\* middleware.IdempotencyValidator with the lookup RegisterRoutes gives it
IdempotencyValidator(i) ==
  /\ reqs[i].pc = "validator"
  /\ LET r == reqs[i]
         key == r.key
     IN IF key = ""
          THEN Step(i, [r EXCEPT !.pc = "ratelimit"])
        ELSE IF Len(key) > idemMaxLen \/ ~KeyPattern(key)
          THEN Finish(i, Respond(400, FALSE, NoMsg, ""))
        ELSE LET exists ==
                   GetIdempotency(idem, userIDFromCtx(CtxUserID), r.chat, key, now) # {}
             IN Step(i, [r EXCEPT !.pc = "ratelimit", !.bypass = exists])
  /\ UNCHANGED <<now, chats, messages, idem, visitors, cleanupN>>
  /\ UNCHANGED <<rvars, ivars, xvars>>

\* RateLimiter.Handler, with getVisitor and the limiter's Allow
RateLimiterHandler(i) ==
  /\ reqs[i].pc = "ratelimit"
  /\ LET r == reqs[i]
         key == KeyByUserOrIP(CtxUserID, r.ip)
         n == cleanupN + 1
         swept == IF n >= cleanupEvery THEN sweep(visitors, now) ELSE visitors
         lim == IF key \in DOMAIN swept
                  THEN swept[key]
                  ELSE [tokens |-> effectiveBurst(RateBurst), last |-> now, lastSeen |-> now]
         tokens == tokensAt(lim, now)
         allowed == tokens >= 1
         after == [tokens |-> IF allowed THEN tokens - 1 ELSE lim.tokens,
                   last |-> IF allowed THEN now ELSE lim.last,
                   lastSeen |-> now]
     IN IF r.bypass
          THEN /\ Step(i, [r EXCEPT !.pc = "handler"])
               /\ UNCHANGED <<visitors, cleanupN>>
          ELSE /\ cleanupN' = IF n >= cleanupEvery THEN 0 ELSE n
               /\ visitors' = [k \in DOMAIN swept \cup {key} |-> IF k = key THEN after ELSE swept[k]]
               /\ IF allowed
                    THEN Step(i, [r EXCEPT !.pc = "handler", !.took = TRUE])
                    ELSE Finish(i, Respond(429, FALSE, NoMsg, "1"))
  /\ UNCHANGED <<now, chats, messages, idem>>
  /\ UNCHANGED <<rvars, ivars, xvars>>

\* Handlers.PostMessage up to the call of Answer: the validation of the
\* request and the replay path
PostMessage(i) ==
  /\ reqs[i].pc = "handler"
  /\ LET r == reqs[i]
         content == ContentOf(r)
         maxRunes == discoverMaxPromptRunes(MaxPromptRunes)
         recs == GetIdempotency(idem, CurrentUser(r), r.chat, IdemKeyOf(r), now)
         prev == IF recs = {} THEN {} ELSE GetMessage(messages, (CHOOSE x \in recs : TRUE).messageID)
     IN IF ~IsUUID(r.chat) THEN Finish(i, Respond(400, FALSE, NoMsg, ""))
        ELSE IF Len(r.body) < 1 THEN Finish(i, Respond(400, FALSE, NoMsg, ""))
        ELSE IF maxRunes > 0 /\ Len(content) > maxRunes
          THEN Finish(i, Respond(400, FALSE, NoMsg, ""))
        ELSE IF content = "" THEN Finish(i, Respond(400, FALSE, NoMsg, ""))
        ELSE IF IdemKeyOf(r) # "" /\ prev # {}
          THEN Finish(i, Respond(200, TRUE, CHOOSE x \in prev : TRUE, ""))
        ELSE Step(i, [r EXCEPT !.pc = "answer"])
  /\ UNCHANGED <<now, chats, messages, idem, visitors, cleanupN>>
  /\ UNCHANGED <<rvars, ivars, xvars>>

\* MessageService.Answer up to the transaction: the prompt checks and GetChat
AnswerGetChat(i) ==
  /\ reqs[i].pc = "answer"
  /\ LET r == reqs[i]
         p == TrimSpace(ContentOf(r))
         found == GetChat(chats, r.chat, CurrentUser(r))
     IN IF p = "" THEN Finish(i, Respond(400, FALSE, NoMsg, ""))
        ELSE IF MaxPromptRunes > 0 /\ Len(p) > MaxPromptRunes
          THEN Finish(i, Respond(400, FALSE, NoMsg, ""))
        ELSE IF found = {} THEN Finish(i, Respond(404, FALSE, NoMsg, ""))
        ELSE Step(i, [r EXCEPT !.pc = "tx", !.title = chats[r.chat].title])
  /\ UNCHANGED <<now, chats, messages, idem, visitors, cleanupN>>
  /\ UNCHANGED <<rvars, ivars, xvars>>

\* MessageService.Answer from retrieve on: the transaction that inserts the
\* user and the assistant message and may set the title, then the clip of
\* the returned message
AnswerTransaction(i) ==
  /\ reqs[i].pc = "tx"
  /\ LET r == reqs[i]
         p == TrimSpace(ContentOf(r))
         gen == generateTitleFromPrompt(p)
     IN \E out \in RetrieveOfService[p] :
          LET userMsg == [id |-> Len(messages) + 1, chatID |-> r.chat, role |-> roleUser,
                          content |-> p, score |-> NoScore]
              assistantMsg == [id |-> Len(messages) + 2, chatID |-> r.chat,
                               role |-> roleAssistant, content |-> out.reply,
                               score |-> out.score]
          IN /\ messages' = messages \o <<userMsg, assistantMsg>>
             /\ chats' = IF shouldAutoTitle(r.title) /\ gen # ""
                           THEN [chats EXCEPT ![r.chat].title = clipTitle(gen, TitleMaxLen)]
                           ELSE chats
             /\ Step(i, [r EXCEPT !.pc = "store",
                                  !.m = [assistantMsg EXCEPT
                                           !.content = clipReply(out.reply, MaxReplyRunes)]])
  /\ UNCHANGED <<now, idem, visitors, cleanupN>>
  /\ UNCHANGED <<rvars, ivars, xvars>>

\* Handlers.PostMessage after Answer: the store path and the response
PostMessageStore(i) ==
  /\ reqs[i].pc = "store"
  /\ LET r == reqs[i]
     IN /\ idem' = IF IdemKeyOf(r) # ""
                     THEN CreateIdempotency(idem, CurrentUser(r), r.chat, IdemKeyOf(r),
                                            r.m.id, 200, now, IdemTTL)
                     ELSE idem
        /\ Finish(i, Respond(200, FALSE, r.m, ""))
  /\ UNCHANGED <<now, chats, messages, visitors, cleanupN>>
  /\ UNCHANGED <<rvars, ivars, xvars>>

\* time passes
Tick ==
  /\ now + TickMinutes <= MaxNow
  /\ now' = now + TickMinutes
  /\ UNCHANGED <<chats, messages, idem, visitors, cleanupN, reqs>>
  /\ UNCHANGED <<rvars, ivars, xvars>>

NextHttp ==
  \/ Send
  \/ Tick
  \/ \E i \in 1..Len(reqs) : IdempotencyValidator(i)
  \/ \E i \in 1..Len(reqs) : RateLimiterHandler(i)
  \/ \E i \in 1..Len(reqs) : PostMessage(i)
  \/ \E i \in 1..Len(reqs) : AnswerGetChat(i)
  \/ \E i \in 1..Len(reqs) : AnswerTransaction(i)
  \/ \E i \in 1..Len(reqs) : PostMessageStore(i)

SpecHttp == InitHttp /\ [][NextHttp]_vars

(***************************************************************************)
(* The middleware chain: IdempotencyValidator, RateLimiter.Handler, next     *)
(***************************************************************************)
\* the requests of a run, and how many of them are under way at a time
MaxMwRequests == 2
MaxInFlight == 2

\* the clock advances by MwTick minutes up to MwMaxNow
MwTick == 5
MwMaxNow == 10

\* config.RateBurst as the operator may set it
Bursts == {0 - 1, 0, 1, 2}

\* Idempotency-Key headers: none, a valid key, a key with a blank
\* a key of idemMaxLen + 1 characters
LongKey ==
  "aaaaaaaaaaaaaaaaaaaaaaaaaaaaaaaaaaaaaaaaaaaaaaaaaaaaaaaaaaaaaaaaaaaaaaaaaaaaaaaaaaaaaaaaaaaaaaaaaaaaaaaaaaaaaaaaaaaaaaaaaaaaaaaaaaaaaaaaaaaaaaaaaaaaaaaaaaaaaaaaaaaaaaaaaaaaaaaaaaaaaaaaaaaaaaaaaaaaaaaaaaaaa"
MwHeaders == {"", "k1", "k 1", LongKey}
MwIPs == {"203.0.113.7", "203.0.113.9"}

\* what repo.GetIdempotency gives the lookup: a record, none, or an error
RepoOutcomes == {"record", "none", "error"}

\* a lookup that takes a failed query for a hit
lookupErrIsHit(outcome) == outcome # "none"

\* the lookup RegisterRoutes passes: no record and a failed query are both
\* (false, nil)
lookupOfRoutes(outcome) == ~(outcome = "error" \/ outcome = "none")

\* NewRateLimiter
NewRateLimiter(burst) ==
  [burst |-> effectiveBurst(burst), visitors |-> <<>>, cleanupN |-> 0]

\* rate.NewLimiter: the bucket starts full. key, grantAt and grants are
\* history: the key it was made for, and how many requests it admitted at
\* the instant grantAt
NewLimiter(burst, key, t) ==
  [tokens |-> burst, last |-> t, key |-> key, grantAt |-> t, grants |-> 0]

\* a getVisitor that sweeps after it has refreshed the requested visitor
getVisitorSweepLast(r, heap, key, t) ==
  LET n == r.cleanupN + 1
      known == key \in DOMAIN r.visitors
      heap1 == IF known THEN heap ELSE Append(heap, NewLimiter(r.burst, key, t))
      vs1 == IF known THEN [r.visitors EXCEPT ![key].lastSeen = t]
             ELSE r.visitors @@ (key :> [lim |-> Len(heap1), lastSeen |-> t])
  IN [rl |-> [r EXCEPT !.visitors = IF n >= cleanupEvery THEN sweep(vs1, t) ELSE vs1,
                       !.cleanupN = IF n >= cleanupEvery THEN 0 ELSE n],
      lims |-> heap1,
      lim |-> vs1[key].lim]

\* getVisitor, all of it under rl.mu: the count, the sweep when due, then
\* the visitor of key refreshed or created; lim is the limiter returned
getVisitor(r, heap, key, t) ==
  LET n == r.cleanupN + 1
      kept == IF n >= cleanupEvery THEN sweep(r.visitors, t) ELSE r.visitors
      known == key \in DOMAIN kept
      heap1 == IF known THEN heap ELSE Append(heap, NewLimiter(r.burst, key, t))
      vs1 == IF known THEN [kept EXCEPT ![key].lastSeen = t]
             ELSE kept @@ (key :> [lim |-> Len(heap1), lastSeen |-> t])
  IN [rl |-> [r EXCEPT !.visitors = vs1, !.cleanupN = IF n >= cleanupEvery THEN 0 ELSE n],
      lims |-> heap1,
      lim |-> vs1[key].lim]

\* the tokens of limiter lim at time t: refilled at RateRPS a second, never
\* above the burst
limTokens(lim, burst, t) == Min(burst, lim.tokens + RateRPS * 60 * (t - lim.last))

\* (*rate.Limiter).Allow at time t
limAllow(lim, burst, t) ==
  LET tokens == limTokens(lim, burst, t)
  IN IF tokens >= 1
       THEN [ok |-> TRUE,
             lim |-> [lim EXCEPT !.tokens = tokens - 1, !.last = t,
                                 !.grantAt = t, !.grants = IF lim.grantAt = t THEN @ + 1 ELSE 1]]
       ELSE [ok |-> FALSE, lim |-> lim]

\* n calls of Allow on one limiter at one instant, one after the other: once
\* a call is refused the later ones are refused too and change nothing
RECURSIVE allowRun(_, _, _, _)
allowRun(lim, burst, t, n) ==
  IF n = 0 THEN lim
  ELSE LET a == limAllow(lim, burst, t)
       IN IF a.ok THEN allowRun(a.lim, burst, t, n - 1) ELSE a.lim

NewMwReq(hdr, ip) ==
  [hdr |-> hdr, ip |-> ip, pc |-> "validator", idemKey |-> "", replay |-> FALSE,
   bypass |-> FALSE, lookups |-> 0, outcome |-> "", lim |-> 0, status |-> 0,
   retryAfter |-> "", next |-> FALSE, at |-> 0]

InFlight == {i \in 1..Len(mreqs) : mreqs[i].pc # "done"}

InitMiddleware ==
  /\ \E b \in Bursts : rl = NewRateLimiter(b)
  /\ lims = <<>>
  /\ mnow = 0
  /\ mreqs = <<>>
  /\ Index = NilIndex
  /\ Threshold = RZero
  /\ prompt = ""
  /\ rpc = "idle"
  /\ calls = <<>>
  /\ results = <<>>
  /\ cands = <<>>
  /\ ranked = <<>>
  /\ reply = ""
  /\ score = NoScore
  /\ again = NoCall
  /\ InitServer
  /\ InitNoIndexRun
  /\ InitNoServiceRun

\* a client sends a request
MwSend ==
  /\ Len(mreqs) < MaxMwRequests
  /\ Cardinality(InFlight) < MaxInFlight
  /\ \E hdr \in MwHeaders, ip \in MwIPs : mreqs' = Append(mreqs, NewMwReq(hdr, ip))
  /\ UNCHANGED <<rl, lims, mnow>>
  /\ UNCHANGED <<rvars, hvars, ivars, svars>>

\* the handler IdempotencyValidator returns, with the lookup of RegisterRoutes
MwValidator(i) ==
  /\ mreqs[i].pc = "validator"
  /\ LET r == mreqs[i]
         key == r.hdr
     IN IF key = ""
          THEN mreqs' = [mreqs EXCEPT ![i] = [r EXCEPT !.pc = "limiter"]]
        ELSE IF Len(key) > idemMaxLen \/ ~KeyPattern(key)
          THEN mreqs' = [mreqs EXCEPT ![i] = [r EXCEPT !.pc = "done", !.status = 400]]
        ELSE \E outcome \in RepoOutcomes :
               LET exists == lookupOfRoutes(outcome)
               IN mreqs' = [mreqs EXCEPT ![i] =
                              [r EXCEPT !.pc = "limiter", !.idemKey = key, !.lookups = @ + 1,
                                        !.outcome = outcome, !.replay = exists, !.bypass = exists]]
  /\ UNCHANGED <<rl, lims, mnow>>
  /\ UNCHANGED <<rvars, hvars, ivars, svars>>

\* RateLimiter.Handler up to the limiter: the bypass, else getVisitor
MwLimiter(i) ==
  /\ mreqs[i].pc = "limiter"
  /\ LET r == mreqs[i]
         got == getVisitor(rl, lims, KeyByUserOrIP(CtxUserID, r.ip), mnow)
     IN IF r.bypass
          THEN /\ mreqs' = [mreqs EXCEPT ![i] = [r EXCEPT !.pc = "done", !.next = TRUE, !.status = 200]]
               /\ UNCHANGED <<rl, lims>>
          ELSE /\ rl' = got.rl
               /\ lims' = got.lims
               /\ mreqs' = [mreqs EXCEPT ![i] = [r EXCEPT !.pc = "allow", !.lim = got.lim]]
  /\ UNCHANGED mnow
  /\ UNCHANGED <<rvars, hvars, ivars, svars>>

\* RateLimiter.Handler from lim.Allow() on: next, or 429 with Retry-After
MwAllow(i) ==
  /\ mreqs[i].pc = "allow"
  /\ LET r == mreqs[i]
         a == limAllow(lims[r.lim], rl.burst, mnow)
     IN /\ lims' = [lims EXCEPT ![r.lim] = a.lim]
        /\ mreqs' = [mreqs EXCEPT ![i] =
                       IF a.ok THEN [r EXCEPT !.pc = "done", !.next = TRUE, !.status = 200, !.at = mnow]
                       ELSE [r EXCEPT !.pc = "done", !.status = 429, !.retryAfter = "1", !.at = mnow]]
  /\ UNCHANGED <<rl, mnow>>
  /\ UNCHANGED <<rvars, hvars, ivars, svars>>

\* cleanupEvery - 2 requests without a key header from one address, one after
\* the other at one instant, before the requests that are followed one by
\* one: the first ones take the tokens there are, the rest get 429
MwManyRequests ==
  /\ mreqs = <<>>
  /\ rl.cleanupN = 0
  /\ \E ip \in MwIPs :
       LET key == KeyByUserOrIP(CtxUserID, ip)
           got == getVisitor(rl, lims, key, mnow)
       IN /\ rl' = [got.rl EXCEPT !.cleanupN = cleanupEvery - 2]
          /\ lims' = [got.lims EXCEPT ![got.lim] = allowRun(@, rl.burst, mnow, cleanupEvery - 2)]
  /\ UNCHANGED <<mnow, mreqs>>
  /\ UNCHANGED <<rvars, hvars, ivars, svars>>

\* time passes
MwTime ==
  /\ mnow + MwTick <= MwMaxNow
  /\ mnow' = mnow + MwTick
  /\ UNCHANGED <<rl, lims, mreqs>>
  /\ UNCHANGED <<rvars, hvars, ivars, svars>>

NextMiddleware ==
  \/ MwSend
  \/ MwTime
  \/ MwManyRequests
  \/ \E i \in 1..Len(mreqs) : MwValidator(i)
  \/ \E i \in 1..Len(mreqs) : MwLimiter(i)
  \/ \E i \in 1..Len(mreqs) : MwAllow(i)

SpecMiddleware == InitMiddleware /\ [][NextMiddleware]_vars

(***************************************************************************)
(* The paragraph index: construction, then TopK calls that run concurrently  *)
(***************************************************************************)
\* the most TopK calls made on one index
MaxCalls == 2

Opt(name, arg) == [name |-> name, arg |-> arg]

ParasA ==
  <<"  ", "music \t zz", "the of", "music aa ", "Music   apps\tart ",
    "Gen Z in Nashville spend more on music apps today.", "42 - 7", "the apps music now">>

TextA ==
  "music zz\n\nmusic aa\n \t\nMusic   apps\tart \n\n\nthe of\nof the\n\n  Gen Z in Nashville spend more on music apps today.\n\n"

\* what was read before the read failed
TextPartial == "music zz\n\nmusic a"

NoOpts == <<>>
KeepAll == <<Opt("WithMinParagraphRunes", 0)>>
Capped == <<Opt("WithMinParagraphRunes", 0), Opt("WithMaxDocs", 2), Opt("WithStopwords", <<" The ", "", "of">>)>>
Ignored == <<Opt("WithMinParagraphRunes", 12), Opt("WithMinParagraphRunes", 0 - 1), Opt("WithMaxDocs", 0), Opt("WithStopwords", <<" ">>)>>
Stopped == <<Opt("WithStopwords", <<"the", "OF">>), Opt("WithMinParagraphRunes", 0)>>

FromStrings(paragraphs, opts) ==
  [ctor |-> "NewIndexFromStrings", readable |-> TRUE, paragraphs |-> paragraphs, text |-> "", opts |-> opts]
FromReader(readable, text, opts) ==
  [ctor |-> "NewIndexFromReader", readable |-> readable, paragraphs |-> <<>>, text |-> text, opts |-> opts]
FromMarkdown(readable, text, opts) ==
  [ctor |-> "NewIndexFromMarkdown", readable |-> readable, paragraphs |-> <<>>, text |-> text, opts |-> opts]

Constructions ==
  { FromStrings(ParasA, NoOpts), FromStrings(ParasA, KeepAll), FromStrings(ParasA, Capped),
    FromStrings(ParasA, Ignored), FromStrings(ParasA, Stopped), FromStrings(<<>>, KeepAll),
    FromReader(TRUE, TextA, KeepAll), FromReader(TRUE, "", NoOpts),
    FromReader(FALSE, TextPartial, KeepAll),
    FromMarkdown(TRUE, TextA, Capped), FromMarkdown(FALSE, "", KeepAll) }

Queries == {"Music", " \t", "the of", "Jazz 42"}
Ks == {0 - 1, 0, 2}

InitIndex ==
  /\ source \in Constructions
  /\ ipc = "new"
  /\ buildErr = FALSE
  /\ tcalls = <<>>
  /\ Index = NilIndex
  /\ Threshold = RZero
  /\ prompt = ""
  /\ rpc = "idle"
  /\ calls = <<>>
  /\ results = <<>>
  /\ cands = <<>>
  /\ ranked = <<>>
  /\ reply = ""
  /\ score = NoScore
  /\ again = NoCall
  /\ InitServer
  /\ InitNoExtras

\* what the constructor named by src returns: the index and whether an error
Constructed(src) ==
  CASE src.ctor = "NewIndexFromStrings" ->
         [index |-> NewIndexFromStrings(src.paragraphs, src.opts), err |-> FALSE]
    [] src.ctor = "NewIndexFromReader" ->
         NewIndexFromReader([readable |-> src.readable, text |-> src.text], src.opts)
    [] src.ctor = "NewIndexFromMarkdown" ->
         NewIndexFromMarkdown([readable |-> src.readable, text |-> src.text], src.opts)

\* the constructor runs and returns
Construct ==
  /\ ipc = "new"
  /\ LET out == Constructed(source)
     IN /\ Index' = out.index
        /\ buildErr' = out.err
  /\ ipc' = "built"
  /\ UNCHANGED <<source, tcalls>>
  /\ UNCHANGED <<Threshold, prompt, rpc, calls, results, cands, ranked, reply, score, again>>
  /\ UNCHANGED <<hvars, xvars>>

\* a goroutine calls TopK(q, k) on the index
TopKCall ==
  /\ ipc = "built"
  /\ Len(tcalls) < MaxCalls
  /\ \E q \in Queries, k \in Ks :
       tcalls' = Append(tcalls, [q |-> q, k |-> k, pc |-> "start", j |-> 1,
                                 qTokens |-> {}, buf |-> <<>>, ret |-> NilResults])
  /\ UNCHANGED <<rvars, hvars, xvars, source, ipc, buildErr>>

\* the early returns of TopK and the tokenizing of the query
TopKStart(c) ==
  /\ tcalls[c].pc = "start"
  /\ tcalls' = [tcalls EXCEPT ![c] =
       IF topKEarlyNil(Index, tcalls[c].q)
         THEN [@ EXCEPT !.pc = "done", !.ret = NilResults]
         ELSE [@ EXCEPT !.pc = "loop", !.qTokens = tokenize(tcalls[c].q, Index.cfg.stopwords)]]
  /\ UNCHANGED <<rvars, hvars, xvars, source, ipc, buildErr>>

\* one iteration of TopK's loop over the documents
TopKLoop(c) ==
  /\ tcalls[c].pc = "loop"
  /\ tcalls[c].j <= Len(Index.docs)
  /\ tcalls' = [tcalls EXCEPT ![c] =
       [@ EXCEPT !.buf = topKVisit(@, Index.docs[tcalls[c].j], tcalls[c].qTokens), !.j = @ + 1]]
  /\ UNCHANGED <<rvars, hvars, xvars, source, ipc, buildErr>>

\* the loop is over: the sort, the cut to k, the return
TopKReturn(c) ==
  /\ tcalls[c].pc = "loop"
  /\ tcalls[c].j > Len(Index.docs)
  /\ tcalls' = [tcalls EXCEPT ![c] =
       [@ EXCEPT !.pc = "done", !.ret = topKFinish(tcalls[c].buf, tcalls[c].k)]]
  /\ Index' = [Index EXCEPT !.docs = docsAfterSort(@, tcalls[c].buf)]
  /\ UNCHANGED <<Threshold, prompt, rpc, calls, results, cands, ranked, reply, score, again>>
  /\ UNCHANGED <<hvars, xvars, source, ipc, buildErr>>

NextIndex ==
  \/ Construct
  \/ TopKCall
  \/ \E c \in 1..Len(tcalls) : TopKStart(c)
  \/ \E c \in 1..Len(tcalls) : TopKLoop(c)
  \/ \E c \in 1..Len(tcalls) : TopKReturn(c)

SpecIndex == InitIndex /\ [][NextIndex]_vars

(***************************************************************************)
(* FeedbackService.Leave: concurrent calls on one database                 *)
(***************************************************************************)
MaxLeaves == 3

ErrInvalidFeedback == "invalid feedback"
ErrMessageNotFound == "message not found"
ErrForbiddenFeedback == "forbidden feedback"
ErrDuplicateFeedback == "duplicate feedback"

\* the messages table of the feedback runs: a user and an assistant message
\* in the chat of alice, an assistant message in the chat of demo-user
FbMessages ==
  <<[id |-> 1, chatID |-> ChatA, role |-> roleUser, content |-> "??", score |-> NoScore],
    [id |-> 2, chatID |-> ChatA, role |-> roleAssistant, content |-> DeclineMsg, score |-> NoScore],
    [id |-> 3, chatID |-> ChatD, role |-> roleAssistant, content |-> DeclineMsg, score |-> NoScore]>>

\* the arguments of Leave: 9 is the id of no message
LeaveUsers == {"alice", "demo-user"}
LeaveMessageIDs == {1, 2, 9}
LeaveValues == {0 - 1, 0, 1}

\* the first check of Leave, made before the transaction
leaveValueInvalid(value) == value # 0 - 1 /\ value # 1

\* steps 2 and 3 of the transaction with the role check left out
leaveAccessOwnerOnly(msg, chatTable, user) ==
  IF GetChat(chatTable, msg.chatID, user) = {} THEN ErrForbiddenFeedback
  ELSE ""

\* steps 2 and 3 of the transaction on the loaded message: the chat of the
\* message must belong to the user, and the message be an assistant message
leaveAccess(msg, chatTable, user) ==
  IF GetChat(chatTable, msg.chatID, user) = {} THEN ErrForbiddenFeedback
  ELSE IF msg.role # "assistant" THEN ErrForbiddenFeedback
  ELSE ""

\* a feedbacks table without the unique index
FeedbackUniqueOff(table, messageID, user) == FALSE

\* the unique index ux_feedback_message_user
FeedbackUniqueViolation(table, messageID, user) ==
  \E f \in table : f.messageID = messageID /\ f.userID = user

NoRow == <<>>

NewLeave(user, messageID, value) ==
  [userID |-> user, messageID |-> messageID, value |-> value, pc |-> "called",
   msg |-> NoMsg, row |-> NoRow, stmts |-> 0, err |-> ""]

\* the rows that transactions in flight have inserted and not yet committed
PendingRows == {leaves[i].row : i \in {j \in 1..Len(leaves) : leaves[j].row # NoRow /\ leaves[j].pc = "commit"}}

InitFeedback ==
  /\ Index = NilIndex
  /\ Threshold = RZero
  /\ prompt = ""
  /\ rpc = "idle"
  /\ calls = <<>>
  /\ results = <<>>
  /\ cands = <<>>
  /\ ranked = <<>>
  /\ reply = ""
  /\ score = NoScore
  /\ again = NoCall
  /\ now = 0
  /\ chats = InitChats
  /\ messages = FbMessages
  /\ idem = {}
  /\ visitors = <<>>
  /\ cleanupN = 0
  /\ reqs = <<>>
  /\ InitNoIndexRun
  /\ InitNoMiddlewareRun
  /\ feedbacks = {}
  /\ leaves = <<>>
  /\ acalls = <<>>

\* a caller calls Leave
LeaveCall ==
  /\ Len(leaves) < MaxLeaves
  /\ \E u \in LeaveUsers, m \in LeaveMessageIDs, v \in LeaveValues :
       leaves' = Append(leaves, NewLeave(u, m, v))
  /\ UNCHANGED feedbacks
  /\ UNCHANGED <<rvars, hvars, ivars, lvars, acalls>>

\* the check of the value; then the transaction begins
LeaveValidate(i) ==
  /\ leaves[i].pc = "called"
  /\ leaves' = [leaves EXCEPT ![i] =
                  IF leaveValueInvalid(@.value)
                    THEN [@ EXCEPT !.pc = "done", !.err = ErrInvalidFeedback]
                    ELSE [@ EXCEPT !.pc = "getMessage"]]
  /\ UNCHANGED feedbacks
  /\ UNCHANGED <<rvars, hvars, ivars, lvars, acalls>>

\* step 1 of the transaction: repo.GetMessage
LeaveGetMessage(i) ==
  /\ leaves[i].pc = "getMessage"
  /\ LET found == GetMessage(messages, leaves[i].messageID)
     IN leaves' = [leaves EXCEPT ![i] =
                     IF found = {}
                       THEN [@ EXCEPT !.pc = "done", !.err = ErrMessageNotFound, !.stmts = @ + 1]
                       ELSE [@ EXCEPT !.pc = "getChat", !.msg = CHOOSE m \in found : TRUE,
                                      !.stmts = @ + 1]]
  /\ UNCHANGED feedbacks
  /\ UNCHANGED <<rvars, hvars, ivars, lvars, acalls>>

\* steps 2 and 3: repo.GetChat for the chat of the message, and the role
LeaveGetChat(i) ==
  /\ leaves[i].pc = "getChat"
  /\ LET e == leaveAccess(leaves[i].msg, chats, leaves[i].userID)
     IN leaves' = [leaves EXCEPT ![i] =
                     IF e # "" THEN [@ EXCEPT !.pc = "done", !.err = e, !.stmts = @ + 1]
                     ELSE [@ EXCEPT !.pc = "create", !.stmts = @ + 1]]
  /\ UNCHANGED feedbacks
  /\ UNCHANGED <<rvars, hvars, ivars, lvars, acalls>>

\* step 4: tx.Create. The insert waits while another transaction holds an
\* uncommitted row of the same message and user; a committed one makes it
\* fail on the unique index and the transaction is rolled back
LeaveCreate(i) ==
  /\ leaves[i].pc = "create"
  /\ LET c == leaves[i]
         row == [id |-> i, messageID |-> c.messageID, userID |-> c.userID, value |-> c.value]
     IN /\ ~FeedbackUniqueViolation(PendingRows, c.messageID, c.userID)
        /\ leaves' = [leaves EXCEPT ![i] =
                        IF FeedbackUniqueViolation(feedbacks, c.messageID, c.userID)
                          THEN [@ EXCEPT !.pc = "done", !.err = ErrDuplicateFeedback, !.stmts = @ + 1]
                          ELSE [@ EXCEPT !.pc = "commit", !.row = row, !.stmts = @ + 1]]
  /\ UNCHANGED feedbacks
  /\ UNCHANGED <<rvars, hvars, ivars, lvars, acalls>>

\* the transaction commits and Leave returns nil
LeaveCommit(i) ==
  /\ leaves[i].pc = "commit"
  /\ feedbacks' = feedbacks \cup {leaves[i].row}
  /\ leaves' = [leaves EXCEPT ![i] = [@ EXCEPT !.pc = "done"]]
  /\ UNCHANGED <<rvars, hvars, ivars, lvars, acalls>>

NextFeedback ==
  \/ LeaveCall
  \/ \E i \in 1..Len(leaves) : LeaveValidate(i)
  \/ \E i \in 1..Len(leaves) : LeaveGetMessage(i)
  \/ \E i \in 1..Len(leaves) : LeaveGetChat(i)
  \/ \E i \in 1..Len(leaves) : LeaveCreate(i)
  \/ \E i \in 1..Len(leaves) : LeaveCommit(i)

SpecFeedback == InitFeedback /\ [][NextFeedback]_vars

(***************************************************************************)
(* MessageService.Answer and ListPage: concurrent calls on one database    *)
(***************************************************************************)
MaxServiceCalls == 2

ErrEmptyPrompt == "prompt is empty"
ErrTooLong == "prompt too long"
ErrChatNotFound == "chat not found"
ErrDB == "database error"

\* the id of no chat
ChatNone == "99999999-9999-4999-8999-999999999999"

ServiceUsers == {"alice", "demo-user"}
ServiceChats == {ChatA, ChatD, ChatNone}

\* the titles the chat of alice may start with: placeholders as they are
\* compared, and a title of her own
StartTitles == {defaultTitleNew, " UNTITLED ", "", "Plans"}

\* the prompts of the Answer calls: two that give different titles, one
\* that gives none, a blank one and one longer than MaxPromptRunes
AnswerPrompts == {"Gen Z Nashville", "music apps", "??", " \r\n", "What do Gen Z in Nashville do?"}

\* retrieve of the service on each prompt Answer can pass it
RetrieveOfAnswer ==
  [p \in {TrimSpace(b) : b \in AnswerPrompts} |-> retrieve(HttpIndex, HttpThreshold, p)]

\* the messages table before the first call: one pair in the chat of
\* demo-user
StartMessages ==
  <<[id |-> 1, chatID |-> ChatD, role |-> roleUser, content |-> "??", score |-> NoScore],
    [id |-> 2, chatID |-> ChatD, role |-> roleAssistant, content |-> DeclineMsg, score |-> NoScore]>>

\* what can go wrong in the transaction of Answer
TxFaults == {"none", "user insert", "assistant insert", "title update", "commit"}

\* the body of the transaction with the error of the second insert dropped
answerTxSwallow(msgs, chatTable, chat, title, p, out, fault) ==
  LET userMsg == [id |-> Len(msgs) + 1, chatID |-> chat, role |-> roleUser,
                  content |-> p, score |-> NoScore]
      assistantMsg == [id |-> Len(msgs) + 2, chatID |-> chat, role |-> roleAssistant,
                       content |-> out.reply, score |-> out.score]
      gen == generateTitleFromPrompt(p)
      retitle == shouldAutoTitle(title) /\ gen # "" /\ fault # "title update"
  IN IF fault = "user insert" \/ fault = "commit"
       THEN [err |-> ErrDB, messages |-> msgs, chats |-> chatTable, m |-> NoMsg]
     ELSE [err |-> "",
           messages |-> IF fault = "assistant insert" THEN Append(msgs, userMsg)
                        ELSE msgs \o <<userMsg, assistantMsg>>,
           chats |-> IF retitle THEN [chatTable EXCEPT ![chat].title = clipTitle(gen, TitleMaxLen)]
                     ELSE chatTable,
           m |-> assistantMsg]

\* the transaction of Answer: the two inserts and the title update, then the
\* commit. An error of an insert or of the commit rolls everything back and
\* is returned; an error of the title update is dropped
answerTx(msgs, chatTable, chat, title, p, out, fault) ==
  LET userMsg == [id |-> Len(msgs) + 1, chatID |-> chat, role |-> roleUser,
                  content |-> p, score |-> NoScore]
      assistantMsg == [id |-> Len(msgs) + 2, chatID |-> chat, role |-> roleAssistant,
                       content |-> out.reply, score |-> out.score]
      gen == generateTitleFromPrompt(p)
      retitle == shouldAutoTitle(title) /\ gen # "" /\ fault # "title update"
  IN IF fault \in {"user insert", "assistant insert", "commit"}
       THEN [err |-> ErrDB, messages |-> msgs, chats |-> chatTable, m |-> NoMsg]
     ELSE [err |-> "",
           messages |-> msgs \o <<userMsg, assistantMsg>>,
           chats |-> IF retitle THEN [chatTable EXCEPT ![chat].title = clipTitle(gen, TitleMaxLen)]
                     ELSE chatTable,
           m |-> assistantMsg]

\* the messages of a chat in the order of the table
RECURSIVE messagesOf(_, _)
messagesOf(msgs, chat) ==
  IF Len(msgs) = 0 THEN <<>>
  ELSE (IF Head(msgs).chatID = chat THEN <<Head(msgs)>> ELSE <<>>) \o messagesOf(Tail(msgs), chat)

\* repo.ListMessagesPage after the defaults of ListPage
listMessagesPage(msgs, chat, page, pageSize) ==
  LET pg == IF page < 1 THEN 1 ELSE page
      size == IF pageSize <= 0 THEN 20 ELSE pageSize
      offset == (pg - 1) * size
      all == messagesOf(msgs, chat)
  IN SubSeq(all, offset + 1, Min(Len(all), offset + size))

NewAnswer(user, chat, p) ==
  [op |-> "Answer", userID |-> user, chatID |-> chat, prompt |-> p, pc |-> "check",
   title |-> "", err |-> "", m |-> NoMsg, fault |-> "", total |-> 0, items |-> <<>>]

NewList(user, chat) ==
  [op |-> "ListPage", userID |-> user, chatID |-> chat, prompt |-> "", pc |-> "exists",
   title |-> "", err |-> "", m |-> NoMsg, fault |-> "", total |-> 0, items |-> <<>>]

InitAnswer ==
  /\ Index = HttpIndex
  /\ Threshold = HttpThreshold
  /\ prompt = ""
  /\ rpc = "idle"
  /\ calls = <<>>
  /\ results = <<>>
  /\ cands = <<>>
  /\ ranked = <<>>
  /\ reply = ""
  /\ score = NoScore
  /\ again = NoCall
  /\ now = 0
  /\ \E t \in StartTitles : chats = [InitChats EXCEPT ![ChatA].title = t]
  /\ messages = StartMessages
  /\ idem = {}
  /\ visitors = <<>>
  /\ cleanupN = 0
  /\ reqs = <<>>
  /\ InitNoIndexRun
  /\ InitNoMiddlewareRun
  /\ feedbacks = {}
  /\ leaves = <<>>
  /\ acalls = <<>>

\* a caller calls Answer
AnswerCall ==
  /\ Len(acalls) < MaxServiceCalls
  /\ \E u \in ServiceUsers, c \in ServiceChats, b \in AnswerPrompts :
       acalls' = Append(acalls, NewAnswer(u, c, b))
  /\ UNCHANGED <<chats, messages>>
  /\ UNCHANGED <<rvars, ivars, lvars, feedbacks, leaves>>
  /\ UNCHANGED <<now, idem, visitors, cleanupN, reqs>>

\* the ListMessages handler calls ListPage for a request of user u: the
\* handler reads the chat id and the page, never the user
ListCall ==
  /\ Len(acalls) < MaxServiceCalls
  /\ \E u \in ServiceUsers, c \in ServiceChats : acalls' = Append(acalls, NewList(u, c))
  /\ UNCHANGED <<chats, messages>>
  /\ UNCHANGED <<rvars, ivars, lvars, feedbacks, leaves>>
  /\ UNCHANGED <<now, idem, visitors, cleanupN, reqs>>

\* Answer up to the transaction: the prompt checks and repo.GetChat
AnswerCheck(i) ==
  /\ acalls[i].op = "Answer" /\ acalls[i].pc = "check"
  /\ LET c == acalls[i]
         p == TrimSpace(c.prompt)
     IN acalls' = [acalls EXCEPT ![i] =
          IF p = "" THEN [c EXCEPT !.pc = "done", !.err = ErrEmptyPrompt]
          ELSE IF MaxPromptRunes > 0 /\ Len(p) > MaxPromptRunes
            THEN [c EXCEPT !.pc = "done", !.err = ErrTooLong]
          ELSE IF GetChat(chats, c.chatID, c.userID) = {}
            THEN [c EXCEPT !.pc = "done", !.err = ErrChatNotFound]
          ELSE [c EXCEPT !.pc = "tx", !.title = chats[c.chatID].title]]
  /\ UNCHANGED <<chats, messages>>
  /\ UNCHANGED <<rvars, ivars, lvars, feedbacks, leaves>>
  /\ UNCHANGED <<now, idem, visitors, cleanupN, reqs>>

\* Answer from retrieve on: the transaction, then the clip of the reply
AnswerTx(i) ==
  /\ acalls[i].op = "Answer" /\ acalls[i].pc = "tx"
  /\ LET c == acalls[i]
         p == TrimSpace(c.prompt)
     IN \E out \in RetrieveOfAnswer[p], fault \in TxFaults :
          LET t == answerTx(messages, chats, c.chatID, c.title, p, out, fault)
          IN /\ messages' = t.messages
             /\ chats' = t.chats
             /\ acalls' = [acalls EXCEPT ![i] =
                  [c EXCEPT !.pc = "done", !.err = t.err, !.fault = fault,
                            !.m = IF t.err # "" THEN NoMsg
                                  ELSE [t.m EXCEPT !.content = clipReply(@, MaxReplyRunes)]]]
  /\ UNCHANGED <<rvars, ivars, lvars, feedbacks, leaves>>
  /\ UNCHANGED <<now, idem, visitors, cleanupN, reqs>>

\* ListPage: the count of the chats of that id, whoever owns them
ListExists(i) ==
  /\ acalls[i].op = "ListPage" /\ acalls[i].pc = "exists"
  /\ acalls' = [acalls EXCEPT ![i] =
       IF acalls[i].chatID \notin DOMAIN chats
         THEN [@ EXCEPT !.pc = "done", !.err = ErrChatNotFound]
         ELSE [@ EXCEPT !.pc = "count"]]
  /\ UNCHANGED <<chats, messages>>
  /\ UNCHANGED <<rvars, ivars, lvars, feedbacks, leaves>>
  /\ UNCHANGED <<now, idem, visitors, cleanupN, reqs>>

\* ListPage: repo.CountMessages
ListCount(i) ==
  /\ acalls[i].op = "ListPage" /\ acalls[i].pc = "count"
  /\ LET total == Len(messagesOf(messages, acalls[i].chatID))
     IN acalls' = [acalls EXCEPT ![i] =
          IF total = 0 THEN [@ EXCEPT !.pc = "done"]
          ELSE [@ EXCEPT !.pc = "page", !.total = total]]
  /\ UNCHANGED <<chats, messages>>
  /\ UNCHANGED <<rvars, ivars, lvars, feedbacks, leaves>>
  /\ UNCHANGED <<now, idem, visitors, cleanupN, reqs>>

\* ListPage: repo.ListMessagesPage, with the page of the handler's defaults
ListItems(i) ==
  /\ acalls[i].op = "ListPage" /\ acalls[i].pc = "page"
  /\ acalls' = [acalls EXCEPT ![i] =
       [@ EXCEPT !.pc = "done", !.items = listMessagesPage(messages, acalls[i].chatID, 1, 20)]]
  /\ UNCHANGED <<chats, messages>>
  /\ UNCHANGED <<rvars, ivars, lvars, feedbacks, leaves>>
  /\ UNCHANGED <<now, idem, visitors, cleanupN, reqs>>

NextAnswer ==
  \/ AnswerCall
  \/ ListCall
  \/ \E i \in 1..Len(acalls) : AnswerCheck(i)
  \/ \E i \in 1..Len(acalls) : AnswerTx(i)
  \/ \E i \in 1..Len(acalls) : ListExists(i)
  \/ \E i \in 1..Len(acalls) : ListCount(i)
  \/ \E i \in 1..Len(acalls) : ListItems(i)

SpecAnswer == InitAnswer /\ [][NextAnswer]_vars

(***************************************************************************)
(* Properties of retrieve                                                  *)
(***************************************************************************)
Returned == rpc = "returned"
Declined == reply = DeclineMsg /\ score = NoScore

\* the threshold in force: the configured one when positive, else 0.20
EffThr == IF RGt(Threshold, RZero) THEN Threshold ELSE Rat(20, 100)

\* the cleaned snippet of an index result, as the candidate loop reads it
CleanOf(r) == stripMarkdownTablesToLines(TrimSpace(r.snippet))

\* the results whose cleaned snippet is not empty: the candidates the gates see
Gated == {i \in 1..Len(results) : CleanOf(results[i]) # ""}

\* whether result i came through the gates
Survives(i) == \E j \in 1..Len(cands) : cands[j].text = CleanOf(results[i])

Strong == strongEntities(prompt, extractQueryTerms(prompt))

\* the strong entities of the prompt that a text contains
StrongIn(text) == {e \in Strong : Contains(ToLower(text), e)}

HasContentTerm(text) == \E t \in contentTerms(prompt) : Contains(ToLower(text), t)

OverlapOf(text) == overlapRelevance(text, extractQueryTerms(prompt))

\* Index.TopK found nothing for the prompt, nor for the one simplified retry
\* where retrieve makes it
NothingFound ==
  /\ Index.kind # "nil"
  /\ Len(TopK(Index, prompt, K)) = 0
  /\ (simplifyQuery(prompt) # "" /\ simplifyQuery(prompt) # prompt)
       => Len(TopK(Index, simplifyQuery(prompt), K)) = 0

C3_TwoStrongEntities ==
  (Returned /\ Cardinality(Strong) >= 2) =>
    /\ \A i \in Gated :
         Cardinality(StrongIn(CleanOf(results[i]))) < 2 => ~Survives(i)
    /\ (Len(results) = 1 /\ Gated = {1} /\ Cardinality(StrongIn(CleanOf(results[1]))) = 1)
         => Declined

\* the only candidate has the top raw score, a high overlap and one of the
\* two strong entities, and retrieve declines
C3_Witness ==
  /\ Returned
  /\ Cardinality(Strong) >= 2
  /\ Len(results) = 1
  /\ Gated = {1}
  /\ Cardinality(StrongIn(CleanOf(results[1]))) = 1
  /\ RGe(results[1].score, Rat(9, 10))
  /\ RGe(OverlapOf(CleanOf(results[1])), strictFloor)
  /\ RLt(EffThr, results[1].score)
  /\ Declined

\* the effective value of a configured threshold
EffOf(t) == IF RGt(t, RZero) THEN t ELSE Rat(20, 100)

\* whether retrieve, having ranked the survivors as it did, accepts under
\* the configured threshold t
AcceptsUnder(t) == decide(ranked, t).score # NoScore

\* C4 as stated: for any configured thresholds t1 < t2, acceptance under t2
\* implies acceptance under t1, for the same index and prompt.
C4_MonotoneAsConfigured ==
  (Returned /\ score # NoScore) =>
    \A t1 \in Thresholds : RLt(t1, Threshold) => AcceptsUnder(t1)

\* C4, amended: acceptance under t2 implies acceptance under every threshold
\* t1 whose effective value (t1 when t1 > 0, else 0.20) is not above the
\* effective value of t2; in particular under every t1 with 0 < t1 < t2.
C4_MonotoneEffective ==
  (Returned /\ score # NoScore) =>
    \A t1 \in Thresholds : RLe(EffOf(t1), EffOf(Threshold)) => AcceptsUnder(t1)

\* an acceptance under a threshold that has lower configured thresholds, a
\* positive one and one that selects the default
C4_Witness ==
  /\ Returned
  /\ score # NoScore
  /\ \E t1 \in Thresholds : RGt(t1, RZero) /\ RLt(t1, Threshold) /\ AcceptsUnder(t1)
  /\ \E t1 \in Thresholds :
       RLe(t1, RZero) /\ RLt(EffOf(t1), EffOf(Threshold)) /\ AcceptsUnder(t1)
  /\ \E t2 \in Thresholds : RGt(t2, Threshold) /\ ~AcceptsUnder(t2)

\* whether the cleaned snippet of result i has one of the content terms, or
\* the prompt has none
PassesContent(i) ==
  contentTerms(prompt) = {} \/ HasContentTerm(CleanOf(results[i]))

\* C9: with exactly one strong entity a candidate passes the strong-entity
\* gate iff its snippet contains the entity or its overlap score is at least
\* 0.20; with no strong entity, iff its overlap score is at least 0.10 or its
\* snippet has at least 12 runes.
C9_OneOrNoStrongEntity ==
  (Returned /\ Cardinality(Strong) <= 1) =>
    \A i \in Gated :
      PassesContent(i) =>
        LET clean == CleanOf(results[i])
            ov == OverlapOf(clean)
        IN Survives(i) <=>
             IF Cardinality(Strong) = 1
               THEN StrongIn(clean) # {} \/ RGe(ov, Rat(20, 100))
               ELSE RGe(ov, Rat(10, 100)) \/ Len(clean) >= 12

\* one strong entity: a candidate without it passes on an overlap of at
\* least 0.20, and another without it and with a lower overlap, though at
\* least 0.10, is discarded
C9_Witness ==
  /\ Returned
  /\ Cardinality(Strong) = 1
  /\ \E i \in Gated :
       /\ StrongIn(CleanOf(results[i])) = {}
       /\ RGe(OverlapOf(CleanOf(results[i])), Rat(20, 100))
       /\ Survives(i)
  /\ \E i \in Gated :
       /\ StrongIn(CleanOf(results[i])) = {}
       /\ RGe(OverlapOf(CleanOf(results[i])), Rat(10, 100))
       /\ RLt(OverlapOf(CleanOf(results[i])), Rat(20, 100))
       /\ ~Survives(i)

\* C10: when the prompt has content terms, every surviving candidate
\* contains one as a case-insensitive substring of its cleaned snippet, a
\* candidate containing none is discarded whatever its scores, and retrieve
\* declines when that removes every candidate.
C10_ContentTermGate ==
  (Returned /\ contentTerms(prompt) # {}) =>
    /\ \A j \in 1..Len(cands) : HasContentTerm(cands[j].text)
    /\ \A i \in Gated : ~HasContentTerm(CleanOf(results[i])) => ~Survives(i)
    /\ (Len(results) > 0 /\ \A i \in Gated : ~HasContentTerm(CleanOf(results[i])))
         => Declined

\* the only candidate has a high raw score and two strong entities of the
\* prompt but no content term, and retrieve declines
C10_Witness ==
  /\ Returned
  /\ contentTerms(prompt) # {}
  /\ Len(results) = 1
  /\ Gated = {1}
  /\ ~HasContentTerm(CleanOf(results[1]))
  /\ Cardinality(StrongIn(CleanOf(results[1]))) >= 2
  /\ RLt(EffThr, results[1].score)
  /\ Declined

\* the second-ranked survivor is close to the first and contains every strong
\* entity of the prompt that the first contains
SecondJoins ==
  /\ Len(ranked) > 1
  /\ RGe(ranked[2].combined, RMul(Rat(9, 10), ranked[1].combined))
  /\ StrongIn(ranked[1].text) \subseteq StrongIn(ranked[2].text)

\* C11: an accepted reply is the text of the first-ranked survivor, followed
\* by the text of the second-ranked one on a new line iff the second's
\* combined score is at least 90% of the first's and the second contains
\* every strong entity the first contains; no third text follows. The reply
\* carries the text with its white space collapsed line by line.
C11_SecondSnippetRule ==
  (Returned /\ score # NoScore) =>
    /\ Len(ranked) > 0
    /\ reply = collapseWhitespaceLines(
                 IF SecondJoins THEN ranked[1].text \o "\n" \o ranked[2].text
                 ELSE ranked[1].text)

\* an acceptance of three survivors whose reply is the first two texts
C11_Witness ==
  /\ Returned
  /\ score # NoScore
  /\ Len(ranked) >= 3
  /\ SecondJoins
  /\ reply = ranked[1].text \o "\n" \o ranked[2].text

PromptTokens == qwordRE(ToLower(prompt))

\* the retry query as the claim words it: the tokens that are no stopwords,
\* or all the tokens when each one is a stopword, joined by single spaces
RetryQuery ==
  LET nonStop == {i \in 1..Len(PromptTokens) : PromptTokens[i] \notin qStop}
  IN IF nonStop = {} THEN Join(PromptTokens, " ")
     ELSE Join([n \in 1..Cardinality(nonStop) |-> PromptTokens[Nth(nonStop, n)]], " ")

\* C19: retrieve has called TopK at most twice, each time with k = 10; the
\* first call's query is the prompt; there is a second call only when the
\* first returned nothing, and its query is the prompt's tokens that are no
\* stopwords, or all its tokens when every token is a stopword
C19_AtMostTwoCalls ==
  Returned =>
    /\ Len(calls) <= 2
    /\ Index.kind # "nil" => (Len(calls) >= 1 /\ calls[1] = prompt)
    /\ Len(calls) = 2 =>
         /\ Len(TopK(Index, prompt, 10)) = 0
         /\ calls[2] = RetryQuery
    /\ Len(calls) = 1 => results = TopK(Index, calls[1], 10)
    /\ Len(calls) = 2 => results = TopK(Index, calls[2], 10)

\* retrieve has made its second call with stopwords stripped from the prompt
\* and got results from it
C19_Witness ==
  /\ Returned
  /\ Len(calls) = 2
  /\ Len(results) > 0
  /\ \E i \in 1..Len(PromptTokens) : PromptTokens[i] \in qStop
  /\ \E i \in 1..Len(PromptTokens) : PromptTokens[i] \notin qStop

\* the query terms of the prompt
QTerms == extractQueryTerms(prompt)

\* the words of a snippet, lower-cased
SnippetTokens(text) == SeqToSet(alnumRE(ToLower(text)))

\* the token Jaccard of the prompt and a snippet
TokenJaccard(text) ==
  Rat(Cardinality(QTerms.allTokens \cap SnippetTokens(text)),
      Cardinality(QTerms.allTokens \cup SnippetTokens(text)))

\* the entity phrases of the prompt that the snippet contains
EntitiesIn(text) == {e \in QTerms.entities : Contains(ToLower(text), e)}

\* 0.06 for each matched entity, at most 0.24
BoostOf(text) ==
  IF RGt(Rat(6 * Cardinality(EntitiesIn(text)), 100), Rat(24, 100))
    THEN Rat(24, 100) ELSE Rat(6 * Cardinality(EntitiesIn(text)), 100)

\* the value the claim gives overlapRelevance for a snippet
RelevanceOf(text) ==
  IF QTerms.allTokens = {} THEN RZero
  ELSE IF RGt(RAdd(TokenJaccard(text), BoostOf(text)), ROne) THEN ROne
  ELSE RAdd(TokenJaccard(text), BoostOf(text))

\* C20: for every result retrieve fetched, overlapRelevance of its cleaned
\* snippet is at least 0 and at most 1 and equals the token Jaccard of prompt
\* and snippet plus 0.06 per entity phrase of the prompt found in the
\* snippet, the boost held to 0.24 and the sum to 1, and is 0 when the prompt
\* has no tokens; every candidate carries that value as its overlap
C20_OverlapRelevance ==
  Returned =>
    /\ \A i \in 1..Len(results) :
         LET ov == overlapRelevance(CleanOf(results[i]), QTerms)
         IN /\ RGe(ov, RZero)
            /\ RLe(ov, ROne)
            /\ ov = RelevanceOf(CleanOf(results[i]))
            /\ QTerms.allTokens = {} => ov = RZero
    /\ \A i \in 1..Len(cands) : cands[i].overlapRel = RelevanceOf(cands[i].text)

\* retrieve has scored a snippet that holds more than four entity phrases of
\* the prompt, its boost held to 0.24 and its value below 1, and a snippet
\* whose Jaccard and boost together pass 1
C20_Witness ==
  /\ Returned
  /\ \E i \in 1..Len(cands) :
       /\ Cardinality(EntitiesIn(cands[i].text)) > 4
       /\ RLt(cands[i].overlapRel, ROne)
       /\ cands[i].overlapRel = RAdd(TokenJaccard(cands[i].text), Rat(24, 100))
  /\ \E i \in 1..Len(cands) :
       /\ RGt(RAdd(TokenJaccard(cands[i].text), BoostOf(cands[i].text)), ROne)
       /\ cands[i].overlapRel = ROne

\* the cleaned text of one result of TopK
CleanedSnippet(r) == stripMarkdownTablesToLines(TrimSpace(r.snippet))

\* the reply is the cleaned text of result i, or that of results i and j
\* joined by a line break, with the white space collapsed
ReplyFrom(i, j) ==
  IF i = j THEN reply = collapseWhitespaceLines(CleanedSnippet(results[i]))
  ELSE reply = collapseWhitespaceLines(CleanedSnippet(results[i]) \o "\n" \o CleanedSnippet(results[j]))

\* C29: a reply returned with a score is not empty and is the cleaned text
\* of one result, or of two different results, of the last TopK call, whose
\* query is the prompt or its simplified form; the score is that of the
\* first of them, and the results of a built index are texts of its documents
C29_ReplyFromSnippets ==
  (Returned /\ score # NoScore) =>
    /\ reply # "" /\ reply # DeclineMsg
    /\ Len(calls) \in {1, 2}
    /\ calls[Len(calls)] \in {prompt, RetryQuery}
    /\ results = TopK(Index, calls[Len(calls)], K)
    /\ \E i, j \in 1..Len(results) : ReplyFrom(i, j) /\ score = results[i].score
    /\ Index.kind = "real" =>
         \A i \in 1..Len(results) :
           \E d \in 1..Len(Index.docs) : Index.docs[d].text = results[i].snippet

\* retrieve has accepted a reply made of two snippets out of three results
\* of a built index
C29_Witness ==
  /\ Returned /\ score # NoScore
  /\ Index.kind = "real"
  /\ Len(results) = 3
  /\ \E i, j \in 1..Len(results) : i # j /\ ReplyFrom(i, j)
  /\ \A i \in 1..Len(results) : ~ReplyFrom(i, i)

(***************************************************************************)
(* Properties of the paragraph index, checked under SpecIndex              *)
(***************************************************************************)
DoneCalls == {c \in 1..Len(tcalls) : tcalls[c].pc = "done"}

\* the query's token set as the index tokenizes it
QOf(c) == tokenize(tcalls[c].q, Index.cfg.stopwords)

\* the positions of the documents that share a token with call c's query
Overlapping(c) == {n \in 1..Len(Index.docs) : QOf(c) \cap Index.docs[n].tokens # {}}

\* |Q n D| / |Q u D|
JaccardOf(Q, D) == Rat(Cardinality(Q \cap D), Cardinality(Q \cup D))

\* a ranks strictly before b: higher score, else shorter, else smaller text
RanksBefore(a, b) ==
  \/ RGt(a.score, b.score)
  \/ a.score = b.score /\ Len(a.snippet) < Len(b.snippet)
  \/ a.score = b.score /\ Len(a.snippet) = Len(b.snippet) /\ StrLess(a.snippet, b.snippet)

\* document n of the index as call c scores it
ScoredDoc(c, n) ==
  [snippet |-> Index.docs[n].text, score |-> JaccardOf(QOf(c), Index.docs[n].tokens)]

\* C13: a finished TopK call's entries are overlapping documents, each ranked
\* before the next or equal to it (score descending, then rune length
\* ascending, then text ascending), no overlapping document left out ranks
\* before a returned one, and two finished calls with the same query and k on
\* the index hold the same entries in the same order
C13_TotalOrder ==
  /\ \A c \in DoneCalls :
       LET items == tcalls[c].ret.items
       IN /\ \A n \in 1..Len(items) : \E d \in Overlapping(c) : ScoredDoc(c, d) = items[n]
          /\ \A n \in 1..(Len(items) - 1) : RanksBefore(items[n], items[n + 1]) \/ items[n] = items[n + 1]
          /\ \A d \in Overlapping(c) :
               \/ \E n \in 1..Len(items) : items[n] = ScoredDoc(c, d)
               \/ \A n \in 1..Len(items) : RanksBefore(items[n], ScoredDoc(c, d))
  /\ \A c1, c2 \in DoneCalls :
       (tcalls[c1].q = tcalls[c2].q /\ tcalls[c1].k = tcalls[c2].k) => tcalls[c1].ret = tcalls[c2].ret

\* two calls with one query and k have returned, and among their entries two
\* of equal score and length stand in text order, against their order in the index
C13_Witness ==
  \E c1, c2 \in DoneCalls :
    /\ c1 # c2
    /\ tcalls[c1].q = tcalls[c2].q /\ tcalls[c1].k = tcalls[c2].k
    /\ LET items == tcalls[c1].ret.items
       IN \E n \in 1..(Len(items) - 1) :
            /\ items[n].score = items[n + 1].score
            /\ Len(items[n].snippet) = Len(items[n + 1].snippet)
            /\ StrLess(items[n].snippet, items[n + 1].snippet)
            /\ \E i, j \in 1..Len(Index.docs) :
                 i > j /\ Index.docs[i].text = items[n].snippet /\ Index.docs[j].text = items[n + 1].snippet

\* C14: every entry a finished TopK call returns is the text of a document
\* that shares a token with the query, its score is |Q n D| / |Q u D| for the
\* query's token set Q and that document's token set D, and the score is more
\* than 0 and at most 1
C14_JaccardScores ==
  \A c \in DoneCalls :
    LET items == tcalls[c].ret.items
    IN \A n \in 1..Len(items) :
         /\ \E d \in 1..Len(Index.docs) : Index.docs[d].text = items[n].snippet
         /\ \A d \in 1..Len(Index.docs) :
              Index.docs[d].text = items[n].snippet =>
                /\ QOf(c) \cap Index.docs[d].tokens # {}
                /\ items[n].score = JaccardOf(QOf(c), Index.docs[d].tokens)
         /\ RGt(items[n].score, RZero)
         /\ RLe(items[n].score, ROne)

\* a call has returned an entry whose document and query each hold a token
\* the other lacks, next to an entry of score 1, while the index holds a
\* document that shares nothing with the query
C14_Witness ==
  \E c \in DoneCalls :
    LET items == tcalls[c].ret.items
    IN /\ \E n \in 1..Len(items), d \in 1..Len(Index.docs) :
            /\ Index.docs[d].text = items[n].snippet
            /\ QOf(c) \ Index.docs[d].tokens # {}
            /\ Index.docs[d].tokens \ QOf(c) # {}
            /\ RLt(items[n].score, ROne)
       /\ \E n \in 1..Len(items) : items[n].score = ROne
       /\ \E d \in 1..Len(Index.docs) : d \notin Overlapping(c)

\* k as TopK uses it
KOf(c) == IF tcalls[c].k <= 0 THEN 3 ELSE tcalls[c].k

IsBlank(q) == \A n \in 1..Len(q) : IsSpace(Ch(q, n))

\* C15: a finished TopK call returned nil when the index has no documents,
\* when the query is blank or when the query has no tokens; otherwise it
\* returned exactly min(k, number of overlapping documents) entries, with k
\* taken as 3 when it is not positive, and nil, never an empty slice, when no
\* document overlaps
C15_NilAndCount ==
  \A c \in DoneCalls :
    LET ret == tcalls[c].ret
        n == Cardinality(Overlapping(c))
    IN /\ (Len(Index.docs) = 0 \/ IsBlank(tcalls[c].q) \/ QOf(c) = {}) => ret.isNil
       /\ Len(ret.items) = (IF KOf(c) < n THEN KOf(c) ELSE n)
       /\ ret.isNil <=> (Len(ret.items) = 0)

\* one call with a non-positive k has returned 3 of more than 3 overlapping
\* documents, another has returned nil for a query with tokens that no
\* document of the index shares
C15_Witness ==
  \E c1, c2 \in DoneCalls :
    /\ tcalls[c1].k <= 0
    /\ Cardinality(Overlapping(c1)) > 3
    /\ Len(tcalls[c1].ret.items) = 3
    /\ QOf(c2) # {}
    /\ Overlapping(c2) = {}
    /\ tcalls[c2].ret.isNil

\* C16: once the index is built no step changes its documents or its
\* configuration, whatever the interleaving of the TopK calls, and every call
\* that has returned holds what TopK run alone on the index returns for its
\* query and k
C16_ReadOnly ==
  [][ipc = "built" =>
       /\ Index' = Index
       /\ \A c \in 1..Len(tcalls') :
            tcalls'[c].pc = "done" =>
              tcalls'[c].ret = indexTopKRet(Index', tcalls'[c].q, tcalls'[c].k)]_vars

\* one call has returned entries while another is in the middle of its loop
\* over the documents with entries of its own collected
C16_Witness ==
  \E c1, c2 \in 1..Len(tcalls) :
    /\ tcalls[c1].pc = "done"
    /\ ~tcalls[c1].ret.isNil
    /\ tcalls[c2].pc = "loop"
    /\ tcalls[c2].j > 1
    /\ tcalls[c2].j <= Len(Index.docs)
    /\ Len(tcalls[c2].buf) > 0

\* the paragraphs the constructor was given, or cut from the text it read
InputParas ==
  IF source.ctor = "NewIndexFromStrings" THEN source.paragraphs
  ELSE IF source.readable THEN splitParasFromBytes(source.text)
  ELSE <<>>

\* no tab, no carriage return, no two spaces in a row, no white space at either end
IsNormalized(t) ==
  /\ \A n \in 1..Len(t) : Ch(t, n) \notin {"\t", "\r"}
  /\ \A n \in 1..(Len(t) - 1) : ~(Ch(t, n) = " " /\ Ch(t, n + 1) = " ")
  /\ Len(t) > 0 => (~IsSpace(Ch(t, 1)) /\ ~IsSpace(Ch(t, Len(t))))

\* the positions of the paragraphs the configuration accepts
AcceptedPos(paras, cfg) ==
  {n \in 1..Len(paras) :
     LET t == TrimSpace(normalizeWhitespace(paras[n]))
     IN /\ t # ""
        /\ (cfg.minParagraphRunes > 0 => Len(t) >= cfg.minParagraphRunes)
        /\ tokenize(t, cfg.stopwords) # {}}

\* C17: once constructed, every document of the index has at least one token
\* and a whitespace-normalized text, of at least minParagraphRunes runes when
\* that is positive; there are at most maxDocs documents when that is
\* positive; and the documents are, in input order, the first accepted
\* paragraphs: all of them, or the first maxDocs
C17_BuiltDocuments ==
  ipc = "built" =>
    LET cfg == Index.cfg
        docs == Index.docs
        acc == AcceptedPos(InputParas, cfg)
        want == IF cfg.maxDocs > 0 /\ cfg.maxDocs < Cardinality(acc) THEN cfg.maxDocs ELSE Cardinality(acc)
    IN /\ \A n \in 1..Len(docs) :
            /\ docs[n].tokens # {}
            /\ docs[n].tokens = tokenize(docs[n].text, cfg.stopwords)
            /\ docs[n].tLen = Cardinality(docs[n].tokens)
            /\ IsNormalized(docs[n].text)
            /\ cfg.minParagraphRunes > 0 => Len(docs[n].text) >= cfg.minParagraphRunes
       /\ cfg.maxDocs > 0 => Len(docs) <= cfg.maxDocs
       /\ buildErr \/ Len(docs) = want
       /\ \A n \in 1..Len(docs) :
            docs[n].text = TrimSpace(normalizeWhitespace(InputParas[Nth(acc, n)]))

\* an index is built that stops at maxDocs documents with accepted paragraphs
\* left over, after passing over a paragraph it rejects and changing the
\* white space of one it keeps
C17_Witness ==
  /\ ipc = "built"
  /\ ~buildErr
  /\ Index.cfg.maxDocs > 0
  /\ Len(Index.docs) = Index.cfg.maxDocs
  /\ Cardinality(AcceptedPos(InputParas, Index.cfg)) > Index.cfg.maxDocs
  /\ \E n \in 1..Len(InputParas) :
       /\ n \notin AcceptedPos(InputParas, Index.cfg)
       /\ \E d \in 1..Len(Index.docs) : Nth(AcceptedPos(InputParas, Index.cfg), d) > n
  /\ \E n \in 1..Len(Index.docs) : Index.docs[n].text \notin {InputParas[m] : m \in 1..Len(InputParas)}

\* C18: a constructor that has returned gave an error exactly when it read
\* from a source that could not be read; the index it returned with the error
\* holds no document, whatever was read before the failure; and on every
\* readable input, the empty one included, it gave no error
C18_ErrorOnlyUnreadable ==
  ipc = "built" =>
    /\ buildErr => (source.ctor # "NewIndexFromStrings" /\ ~source.readable)
    /\ buildErr => Len(Index.docs) = 0
    /\ source.readable => ~buildErr

\* the read failed after text with acceptable paragraphs had been read, and
\* the constructor returned the error with an index of no documents
C18_Witness ==
  /\ ipc = "built"
  /\ buildErr
  /\ ~source.readable
  /\ AcceptedPos(splitParasFromBytes(source.text), Index.cfg) # {}
  /\ Len(Index.docs) = 0

(***************************************************************************)
(* Properties of the middleware chain, checked under SpecMiddleware        *)
(***************************************************************************)
\* the requests key has been admitted at the instant t, over all the
\* limiters made for it
RECURSIVE GrantsOf(_, _, _)
GrantsOf(key, t, n) ==
  IF n = 0 THEN 0
  ELSE GrantsOf(key, t, n - 1)
       + (IF lims[n].key = key /\ lims[n].grantAt = t THEN lims[n].grants ELSE 0)

\* no limiter has admitted more than the burst at one instant
BucketWithinBurst == \A n \in 1..Len(lims) : lims[n].grants <= rl.burst

\* no key has been admitted more than the burst at one instant
KeyWithinBurst ==
  \A n \in 1..Len(lims) : GrantsOf(lims[n].key, lims[n].grantAt, Len(lims)) <= rl.burst

\* a refused request got 429 with Retry-After: 1 and did not reach the next
\* handler; every other finished request but the one with a bad key did
RefusalsAnswered ==
  \A i \in 1..Len(mreqs) :
    mreqs[i].pc = "done" =>
      /\ mreqs[i].status \in {200, 400, 429}
      /\ mreqs[i].status = 429 => (mreqs[i].retryAfter = "1" /\ ~mreqs[i].next /\ ~mreqs[i].bypass)
      /\ mreqs[i].status = 200 <=> mreqs[i].next
      /\ mreqs[i].bypass => mreqs[i].next

\* a step of the rate limiter on a request flagged for bypass changes neither
\* the limiter nor any bucket, and a request is refused only by a bucket
\* that has admitted its burst at this instant
LimiterSteps ==
  \A i \in 1..Len(mreqs) :
    /\ (mreqs[i].pc = "limiter" /\ mreqs[i].bypass /\ mreqs'[i].pc # "limiter")
         => (rl' = rl /\ lims' = lims /\ mreqs'[i].pc = "done" /\ mreqs'[i].next)
    /\ (mreqs[i].pc = "allow" /\ mreqs'[i].status = 429)
         => (lims[mreqs[i].lim].grantAt = mnow /\ lims[mreqs[i].lim].grants = rl.burst /\ lims' = lims)

\* C21: of the requests of one rate-limit key that are not flagged for
\* bypass, no more than the burst are admitted at one instant, time that
\* passes being what refills the tokens; a request beyond them gets 429 with
\* Retry-After: 1 and does not reach the next handler; a request flagged for
\* bypass is passed on and leaves the limiter and every bucket as they were
C21_BurstPerKey ==
  [][KeyWithinBurst' /\ RefusalsAnswered' /\ LimiterSteps]_vars

\* the same with the burst counted per limiter instead of per key
BurstPerBucket ==
  [][BucketWithinBurst' /\ RefusalsAnswered' /\ LimiterSteps]_vars

\* the key of a request passes the checks of the validator
ValidKey(key) == Len(key) <= idemMaxLen /\ KeyPattern(key)

\* what the validator has left in the context of a request it has handled
Validated ==
  \A i \in 1..Len(mreqs) :
    LET r == mreqs[i]
    IN r.pc # "validator" =>
         IF r.hdr = ""
           THEN r.lookups = 0 /\ r.idemKey = "" /\ ~r.replay /\ ~r.bypass /\ r.status # 400
         ELSE IF ~ValidKey(r.hdr)
           THEN r.pc = "done" /\ r.status = 400 /\ ~r.next /\ r.lookups = 0
                /\ r.idemKey = "" /\ ~r.replay /\ ~r.bypass /\ r.lim = 0
         ELSE r.idemKey = r.hdr /\ r.lookups = 1 /\ r.status # 400
              /\ r.replay = (r.outcome = "record") /\ r.bypass = (r.outcome = "record")

\* the validator hands the request on to the rate limiter, the next handler
\* of the chain, unless the key is not valid
ValidatorSteps ==
  \A i \in 1..Len(mreqs) :
    (mreqs[i].pc = "validator" /\ mreqs'[i].pc # "validator")
      => /\ mreqs'[i].pc = "limiter" <=> (mreqs[i].hdr = "" \/ ValidKey(mreqs[i].hdr))
         /\ mreqs[i].hdr = "" => mreqs'[i] = [mreqs[i] EXCEPT !.pc = "limiter"]
         /\ rl' = rl /\ lims' = lims

\* C26: IdempotencyValidator passes a request without the header on as it
\* is, without a lookup; a key that is too long or does not match the pattern
\* gets 400 and the next handler is not run; a valid key is stored, the next
\* handler is run, and the replay and rate-bypass flags are set exactly when
\* the lookup reports a record, a failed lookup counting as a miss
C26_Validator ==
  [][Validated' /\ ValidatorSteps]_vars

\* requests of every kind have been handled: no header, a key too long, a
\* key with a space, a key whose lookup failed, a key with a record
C26_Witness ==
  \E i, j \in 1..Len(mreqs) :
    /\ mreqs[i].pc = "done" /\ mreqs[j].pc = "done"
    /\ \/ mreqs[i].hdr = "" /\ mreqs[i].next /\ mreqs[j].hdr = LongKey /\ mreqs[j].status = 400
       \/ mreqs[i].outcome = "error" /\ ~mreqs[i].replay /\ mreqs[i].status \in {200, 429}
          /\ mreqs[j].outcome = "record" /\ mreqs[j].replay /\ mreqs[j].bypass /\ mreqs[j].next

\* the visitor of key k is idle for the TTL or longer at the instant mnow
IdleVisitor(k) == mnow - rl.visitors[k].lastSeen >= visitorTTL

\* this step is a lookup that sweeps: the count reaches cleanupEvery
SweepStep == rl' # rl /\ rl.cleanupN + 1 >= cleanupEvery

\* a lookup keeps every visitor and its limiter, except that the lookup
\* that brings the count to cleanupEvery drops exactly the idle ones and
\* starts the count again
VisitorsKept ==
  rl' # rl =>
    /\ rl'.burst = rl.burst
    /\ rl'.cleanupN = IF SweepStep THEN 0 ELSE IF mreqs' = mreqs THEN cleanupEvery - 2
                                                ELSE rl.cleanupN + 1
    /\ \A k \in DOMAIN rl.visitors :
         IF SweepStep /\ IdleVisitor(k)
           THEN k \in DOMAIN rl'.visitors => rl'.visitors[k].lim > Len(lims)
           ELSE k \in DOMAIN rl'.visitors /\ rl'.visitors[k].lim = rl.visitors[k].lim

\* a lookup makes a limiter only for a key that has no visitor, after the
\* sweep if there is one, and the limiter starts with a full bucket
LimiterMade ==
  /\ Len(lims') \in {Len(lims), Len(lims) + 1}
  /\ Len(lims') = Len(lims) + 1 =>
       LET l == lims'[Len(lims')]
       IN /\ rl' # rl
          /\ l.key \notin DOMAIN rl.visitors \/ (SweepStep /\ IdleVisitor(l.key))
          /\ rl'.visitors[l.key] = [lim |-> Len(lims'), lastSeen |-> mnow]
          /\ l.last = mnow /\ l.tokens + l.grants = rl.burst
  /\ rl' # rl =>
       \E k \in DOMAIN rl'.visitors :
         /\ rl'.visitors[k].lastSeen = mnow
         /\ DOMAIN rl'.visitors \subseteq DOMAIN rl.visitors \cup {k}
         /\ (k \in DOMAIN rl.visitors /\ ~(SweepStep /\ IdleVisitor(k))) => Len(lims') = Len(lims)
         /\ \A i \in 1..Len(mreqs) :
              (mreqs[i].pc = "limiter" /\ mreqs'[i].pc = "allow")
                => (k = KeyByUserOrIP(CtxUserID, mreqs[i].ip) /\ mreqs'[i].lim = rl'.visitors[k].lim)

\* the visitor of each key holds a limiter made for that key, and no two
\* visitors share a limiter
VisitorsDistinct ==
  /\ \A k \in DOMAIN rl.visitors :
       rl.visitors[k].lim \in 1..Len(lims) /\ lims[rl.visitors[k].lim].key = k
  /\ rl.cleanupN \in 0..(cleanupEvery - 1)

\* C27: getVisitor returns the limiter the key already has until the key is
\* evicted, and makes one limiter for a key that has none however many
\* requests ask for it; visitors are removed only by the lookup that brings
\* the count to 5000, which removes exactly those idle for the TTL or longer,
\* before the requested key is refreshed, so that an idle requested key gets
\* a new limiter with a full bucket
C27_GetVisitor ==
  [][VisitorsKept /\ LimiterMade /\ VisitorsDistinct']_vars

\* the 5000th lookup has swept: it dropped the idle visitor of the requested
\* key and made a second limiter for it, and kept a visitor seen more
\* recently
C27_Witness ==
  \E a, b \in 1..Len(lims), k \in DOMAIN rl.visitors :
    /\ a < b /\ lims[a].key = lims[b].key
    /\ rl.visitors[lims[a].key].lim = b
    /\ k # lims[a].key /\ rl.visitors[k].lastSeen < mnow
    /\ rl.cleanupN = 0

(***************************************************************************)
(* Properties of the idempotent POST                                       *)
(***************************************************************************)
Done(i) == reqs[i].pc = "done"

\* the requests whose Answer persisted a user/assistant pair
Persisted == {i \in 1..Len(reqs) : reqs[i].m # NoMsg}

\* the assistant messages in the table that requests of (user, chat, key)
\* persisted
PairsOf(user, chat, key) ==
  {n \in 1..Len(messages) :
     /\ messages[n].role = roleAssistant
     /\ \E i \in Persisted :
          /\ reqs[i].m.id = messages[n].id
          /\ SenderOf(reqs[i].xuser) = user
          /\ reqs[i].chat = chat
          /\ reqs[i].key = key}

\* C5: for any interleaving of PostMessage requests with the same
\* Idempotency-Key, user and chat, at most one user/assistant pair is
\* persisted for that key. Stated while no record can have expired.
C5_AtMostOnePairPerKey ==
  now < IdemTTL =>
    \A user \in {"alice", "demo-user"}, chat \in ChatParams, key \in KeyHeaders \ {""} :
      Cardinality(PairsOf(user, chat, key)) <= 1

\* request j is handled by PostMessage in this step, having arrived when
\* an unexpired record of its (user, chat, key) existed that is unexpired
\* still
HandledLate(j) ==
  /\ reqs[j].pc = "handler"
  /\ reqs'[j].pc # "handler"
  /\ reqs[j].hadRecord
  /\ LiveRecord(SenderOf(reqs[j].xuser), reqs[j].chat, reqs[j].key)

\* the step answers request j with the recorded assistant message and the
\* header Idempotency-Replayed: true, Answer is not called and no message
\* is persisted
ReplaysRecorded(j) ==
  /\ reqs'[j].pc = "done"
  /\ reqs'[j].resp.status = 200
  /\ reqs'[j].resp.replayed
  /\ \E x \in idem :
       /\ x.userID = SenderOf(reqs[j].xuser) /\ x.chatID = reqs[j].chat /\ x.key = reqs[j].key
       /\ \E n \in 1..Len(messages) :
            /\ messages[n].id = x.messageID
            /\ messages[n].role = roleAssistant
            /\ reqs'[j].resp.message = messages[n]
  /\ reqs'[j].m = NoMsg
  /\ messages' = messages

\* the body passes the validation of PostMessage
ValidBody(b) ==
  /\ Len(b) >= 1
  /\ sanitizeContent(b) # ""
  /\ Len(sanitizeContent(b)) <= MaxPromptRunes

C7_ReplayEqualsOriginal ==
  \A i, j \in 1..Len(reqs) :
    (/\ Done(i) /\ Done(j)
     /\ reqs[i].resp.status = 200 /\ ~reqs[i].resp.replayed
     /\ reqs[j].resp.status = 200 /\ reqs[j].resp.replayed
     /\ reqs[j].resp.message.id = reqs[i].resp.message.id)
      => /\ reqs[j].resp.message.role = reqs[i].resp.message.role
         /\ reqs[j].resp.message.score = reqs[i].resp.message.score
         /\ reqs[j].resp.message.content = reqs[i].resp.message.content

\* C8: a request that the handler serves as an idempotent replay has taken
\* no token from a rate-limit bucket, whichever way the handler resolved the
\* user. Stated for the requests that arrived when the record existed.
C8_ReplaysTakeNoToken ==
  \A j \in 1..Len(reqs) :
    (Done(j) /\ reqs[j].hadRecord /\ reqs[j].resp.replayed) => ~reqs[j].took

\* the records of the user, chat and key of request r that have expired
ExpiredRecords(r) ==
  {x \in idem : /\ IdemKeyOf(r) # ""
                /\ x.userID = CurrentUser(r) /\ x.chatID = r.chat /\ x.key = IdemKeyOf(r)
                /\ x.expiresAt <= now}

\* the steps of request i in the handler when the record of its key has
\* expired: no replay, Answer runs and appends a pair, the insert of a new
\* record changes nothing and the response is the new assistant message
ExpiredKeySteps(i) ==
  LET r == reqs[i]
      q == reqs'[i]
  IN (ExpiredRecords(r) # {} /\ ValidBody(r.body) /\ q # r) =>
       /\ r.pc = "handler" => q.pc = "answer"
       /\ r.pc = "answer" => q.pc = "tx"
       /\ r.pc = "tx" =>
            /\ q.pc = "store"
            /\ Len(messages') = Len(messages) + 2
            /\ SubSeq(messages', 1, Len(messages)) = messages
            /\ messages'[Len(messages) + 1].role = roleUser
            /\ messages'[Len(messages) + 1].chatID = r.chat
            /\ messages'[Len(messages) + 2].role = roleAssistant
            /\ messages'[Len(messages) + 2].chatID = r.chat
            /\ q.m.id = messages'[Len(messages) + 2].id
       /\ r.pc = "store" =>
            /\ idem' = idem
            /\ q.pc = "done" /\ q.resp.status = 200 /\ ~q.resp.replayed /\ q.resp.message = r.m
            /\ \A x \in ExpiredRecords(r) : x.messageID # r.m.id

\* the table of records only grows, holds one record for a user, chat and
\* key, and a key whose record has expired has no live record afterwards
RecordsStay ==
  /\ idem \subseteq idem'
  /\ \A x, y \in idem' : (x.userID = y.userID /\ x.chatID = y.chatID /\ x.key = y.key) => x = y
  /\ \A x \in idem : x.expiresAt <= now =>
       GetIdempotency(idem', x.userID, x.chatID, x.key, now') = {}

\* C28: when the record of (user, chat, key) has expired, a PostMessage with
\* that key and a body the handler accepts is not replayed: Answer runs and
\* a new user/assistant pair is appended, the insert of a new record is
\* refused by the unique index and ignored, the expired record stays as it
\* is, and no later lookup of the key finds a record, so no replay is served
C28_ExpiredKey ==
  [][/\ \A i \in 1..Len(reqs) : ExpiredKeySteps(i)
     /\ RecordsStay
     /\ \A i \in 1..Len(reqs) :
          (reqs'[i].pc = "done" /\ reqs[i].pc # "done" /\ reqs'[i].resp.replayed)
            => ExpiredRecords(reqs[i]) = {}]_vars

\* a request with the key of an expired record has been answered with a new
\* assistant message: the table holds two pairs and the one old record
C28_Witness ==
  \E i \in 1..Len(reqs) :
    /\ Done(i) /\ reqs[i].resp.status = 200 /\ ~reqs[i].resp.replayed
    /\ Len(messages) = 4
    /\ reqs[i].m.id = 4
    /\ \E x \in ExpiredRecords(reqs[i]) : x.messageID = 2 /\ idem = {x}

(***************************************************************************)
(* Properties of FeedbackService.Leave, checked under SpecFeedback         *)
(***************************************************************************)
\* the message of that id, as a set
MessageOf(id) == {messages[n] : n \in {k \in 1..Len(messages) : messages[k].id = id}}

\* a stored feedback has the value -1 or 1 and rates an assistant message
\* of a chat that belongs to the user of the feedback
FeedbackSound(f) ==
  /\ f.value \in {0 - 1, 1}
  /\ \E m \in MessageOf(f.messageID) :
       /\ m.role = roleAssistant
       /\ m.chatID \in DOMAIN chats
       /\ chats[m.chatID].userID = f.userID

\* the calls of Leave for message m and user u that pass the checks made
\* before the insert
Eligible(m, u) ==
  {i \in 1..Len(leaves) :
     /\ leaves[i].messageID = m /\ leaves[i].userID = u
     /\ leaves[i].value \in {0 - 1, 1}
     /\ \E x \in MessageOf(m) : x.role = roleAssistant /\ chats[x.chatID].userID = u}

ExpectedBeforeInsert(c) ==
  IF c.value \notin {0 - 1, 1} THEN ErrInvalidFeedback
  ELSE IF MessageOf(c.messageID) = {} THEN ErrMessageNotFound
  ELSE IF \E x \in MessageOf(c.messageID) :
            chats[x.chatID].userID # c.userID \/ x.role # roleAssistant
    THEN ErrForbiddenFeedback
  ELSE ""

\* the step in which call i returns
LeaveReturns(i) == leaves[i].pc # "done" /\ leaves'[i].pc = "done"

\* C23: Leave returns ErrInvalidFeedback for a value other than -1 and 1
\* without a statement sent to the database, else ErrMessageNotFound for a
\* message that does not exist, else ErrForbiddenFeedback for a chat that is
\* not the caller's or a message that is not an assistant message, else
\* ErrDuplicateFeedback when the message has a feedback of the user; and a
\* call that fails leaves the feedbacks table as it was
C23_LeaveErrors ==
  [][\A i \in 1..Len(leaves) :
       LET c == leaves[i]
           d == leaves'[i]
       IN /\ LeaveReturns(i) =>
               /\ ExpectedBeforeInsert(c) # "" => d.err = ExpectedBeforeInsert(c)
               /\ d.err = ErrInvalidFeedback => (d.stmts = 0 /\ c.pc = "called")
               /\ ExpectedBeforeInsert(c) = "" =>
                    IF \E f \in feedbacks : f.messageID = c.messageID /\ f.userID = c.userID
                      THEN d.err = ErrDuplicateFeedback
                      ELSE d.err = "" /\ feedbacks' = feedbacks \cup {d.row}
               /\ d.err # "" => (feedbacks' = feedbacks /\ d.row = NoRow)
          /\ (feedbacks' # feedbacks /\ c.pc # d.pc) => d.err = ""]_vars

\* every error of Leave has been returned, the duplicate one to a call for
\* a message that has the user's feedback
C23_Witness ==
  \E i, j, k \in 1..Len(leaves) :
    /\ leaves[i].pc = "done" /\ leaves[j].pc = "done" /\ leaves[k].pc = "done"
    /\ leaves[i].err = ErrDuplicateFeedback
    /\ leaves[j].err = ErrForbiddenFeedback /\ leaves[j].messageID = 1
    /\ leaves[k].err = "" /\ feedbacks # {}

(***************************************************************************)
(* Properties of Answer and ListPage, checked under SpecAnswer             *)
(***************************************************************************)
\* call i is a call of Answer that returns in this step
AnswerReturns(i) ==
  acalls[i].op = "Answer" /\ acalls[i].pc # "done" /\ acalls'[i].pc = "done"

\* the error the checks of Answer give call c before the transaction
ExpectedOfChecks(c) ==
  IF TrimSpace(c.prompt) = "" THEN ErrEmptyPrompt
  ELSE IF Len(TrimSpace(c.prompt)) > MaxPromptRunes THEN ErrTooLong
  ELSE IF c.chatID \notin DOMAIN chats \/ chats[c.chatID].userID # c.userID THEN ErrChatNotFound
  ELSE ""

\* the table has gained exactly the pair of call c: its prompt as a user
\* message, then an assistant message, both in its chat
GainedPair(c) ==
  /\ Len(messages') = Len(messages) + 2
  /\ SubSeq(messages', 1, Len(messages)) = messages
  /\ LET u == messages'[Len(messages) + 1]
         a == messages'[Len(messages) + 2]
     IN /\ u.role = roleUser /\ u.chatID = c.chatID /\ u.content = TrimSpace(c.prompt)
        /\ a.role = roleAssistant /\ a.chatID = c.chatID /\ a.content # ""

\* C24: a call of Answer that returns a message has appended its prompt as
\* a user message and then the assistant message to the chat, in one step;
\* a call that returns an error has appended nothing; ErrEmptyPrompt,
\* ErrTooLong and ErrChatNotFound (no such chat, or the chat of another
\* user) are returned with nothing written; and the messages table changes
\* in no other way
C24_AnswerAtomic ==
  [][/\ \A i \in 1..Len(acalls) :
          AnswerReturns(i) =>
            /\ ExpectedOfChecks(acalls[i]) # "" =>
                 /\ acalls'[i].err = ExpectedOfChecks(acalls[i])
                 /\ acalls[i].pc = "check"
            /\ IF acalls'[i].err = "" THEN GainedPair(acalls[i]) /\ acalls'[i].m.id = Len(messages')
               ELSE messages' = messages /\ chats' = chats /\ acalls'[i].m = NoMsg
     /\ messages' # messages => \E i \in 1..Len(acalls) : AnswerReturns(i) /\ acalls'[i].err = ""
     /\ Len(messages') % 2 = 0]_vars

\* one call of Answer has failed on the insert of the assistant message and
\* left nothing, another call on the same chat has returned its message, and
\* the table holds the one pair
C24_Witness ==
  \E i, j \in 1..Len(acalls) :
    /\ acalls[i].pc = "done" /\ acalls[i].fault = "assistant insert" /\ acalls[i].err = ErrDB
    /\ acalls[j].pc = "done" /\ acalls[j].err = "" /\ acalls[j].m # NoMsg
    /\ acalls[i].chatID = acalls[j].chatID
    /\ Len(messages) = Len(StartMessages) + 2

\* a title is a placeholder: empty, "New chat" or "Untitled" once trimmed
\* and in lower case
Placeholder(t) == ToLower(TrimSpace(t)) \in {"", "new chat", "untitled"}

\* the title of a chat changes only in the step in which an Answer on that
\* chat returns a message, to the clipped title generated from its prompt,
\* which is not empty
TitleFromPrompt(c) ==
  chats'[c].title # chats[c].title =>
    \E i \in 1..Len(acalls) :
      /\ AnswerReturns(i) /\ acalls'[i].err = "" /\ acalls[i].chatID = c
      /\ generateTitleFromPrompt(TrimSpace(acalls[i].prompt)) # ""
      /\ chats'[c].title = clipTitle(generateTitleFromPrompt(TrimSpace(acalls[i].prompt)), TitleMaxLen)

\* an Answer whose title update failed returns its message all the same,
\* with its pair appended and the title as it was
TitleFaultHarmless ==
  \A i \in 1..Len(acalls) :
    (AnswerReturns(i) /\ acalls'[i].fault = "title update")
      => (acalls'[i].err = "" /\ GainedPair(acalls[i]) /\ chats' = chats)

\* C25: the title of a chat changes only in a step of Answer, only when the
\* title the chat has at that step is a placeholder and the title generated
\* from the prompt is not empty, so that a title that is no placeholder
\* stays whatever calls of Answer are made; an Answer whose title update
\* fails still returns its message and keeps its two messages
C25_TitleOnlyFromPlaceholder ==
  [][/\ \A c \in DOMAIN chats :
          /\ DOMAIN chats' = DOMAIN chats
          /\ TitleFromPrompt(c)
          /\ chats'[c].title # chats[c].title => Placeholder(chats[c].title)
     /\ TitleFaultHarmless]_vars

\* the same with the placeholder test made on the title the call read when
\* it looked the chat up
TitleReadRule ==
  [][/\ \A c \in DOMAIN chats :
          /\ DOMAIN chats' = DOMAIN chats
          /\ TitleFromPrompt(c)
          /\ chats'[c].title # chats[c].title =>
               \E i \in 1..Len(acalls) :
                 AnswerReturns(i) /\ acalls[i].chatID = c /\ Placeholder(acalls[i].title)
     /\ TitleFaultHarmless]_vars

\* call i is a call of ListPage that returns in this step
ListReturns(i) ==
  acalls[i].op = "ListPage" /\ acalls[i].pc # "done" /\ acalls'[i].pc = "done"

\* the messages of a chat, as the claim has them listed
ChatMessages(chat) ==
  LET ix == {n \in 1..Len(messages) : messages[n].chatID = chat}
  IN [k \in 1..Cardinality(ix) |-> messages[Nth(ix, k)]]

\* C30: ListPage, and the handler that calls it, refuse only a chat that
\* does not exist: whoever asks gets the messages of an existing chat, also
\* of a chat of another user; Answer on a chat of another user returns
\* ErrChatNotFound
C30_ListIgnoresOwner ==
  [][\A i \in 1..Len(acalls) :
       /\ ListReturns(i) =>
            /\ acalls'[i].err = ErrChatNotFound <=> acalls[i].chatID \notin DOMAIN chats
            /\ acalls'[i].err \in {"", ErrChatNotFound}
            /\ acalls'[i].err = "" => acalls'[i].items = ChatMessages(acalls[i].chatID)
       /\ (AnswerReturns(i) /\ acalls[i].chatID \in DOMAIN chats
            /\ chats[acalls[i].chatID].userID # acalls[i].userID
            /\ acalls'[i].err \notin {ErrEmptyPrompt, ErrTooLong})
            => (acalls'[i].err = ErrChatNotFound /\ messages' = messages)]_vars

\* alice has listed the two messages of the chat of demo-user, and her
\* Answer on that chat has returned ErrChatNotFound
C30_Witness ==
  \E i, j \in 1..Len(acalls) :
    /\ acalls[i].op = "ListPage" /\ acalls[i].pc = "done" /\ acalls[i].err = ""
    /\ acalls[i].userID = "alice" /\ acalls[i].chatID = ChatD
    /\ Len(acalls[i].items) = 2 /\ acalls[i].items[2].role = roleAssistant
    /\ chats[ChatD].userID = "demo-user"
    /\ acalls[j].op = "Answer" /\ acalls[j].pc = "done" /\ acalls[j].err = ErrChatNotFound
    /\ acalls[j].userID = "alice" /\ acalls[j].chatID = ChatD

====
